---- MODULE Spec2Model ----
(***************************************************************************)
(* Tapping Time: the forecast-scoring and window-selection engine of       *)
(* src/src/scoring.ts, and the way src/src/index.ts feeds it.              *)
(*                                                                         *)
(* Conventions of the translation:                                         *)
(*   - a nullable value (number | null, BestWindow | null) is a sequence   *)
(*     of length 0 (null) or 1 (the value);                                *)
(*   - an ISO date string 'YYYY-MM-DD' is the triple <<year, month, day>>; *)
(*   - a message string is the sequence of the pieces its template         *)
(*     literal concatenates, so '' is <<>> and + is \o;                    *)
(*   - the em dash of the message templates is written " - ";             *)
(*   - a call that throws yields the record Thrown(...) in place of a      *)
(*     Recommendation.                                                     *)
(***************************************************************************)
EXTENDS Integers, Sequences, FiniteSets, TLC

VARIABLES
    low,        \* scoreDay harness: the tempLow argument
    high,       \* scoreDay harness: the tempHigh argument
    dayScore,   \* scoreDay harness: the DayScore returned
    inDays,     \* the ForecastDay[] both core functions are called with
    window,     \* the BestWindow | null passed to generateRecommendation
    rec,        \* what generateRecommendation returned (or threw)
    hostTz,     \* UTC offset of the host's local time zone, in hours
    argDoy,     \* doyToDate harness: the doy argument
    argYear,    \* the year argument of doyToDate and getSeasonInfo
    isoDate,    \* doyToDate harness: the ISO date returned
    argLatitude, \* getSeasonInfo harness: the latitude argument
    seasonDoys, \* getSeasonInfo: its locals tapByDoy and seasonEndDoy
    seasonInfo, \* getSeasonInfo harness: the SeasonInfo returned
    env,        \* the Worker's bindings: the API key and the KV namespace
    kv,         \* the entries of the FORECAST_CACHE namespace
    weather,    \* the forecast the upstream API currently serves
    request,    \* per in-flight slot: the request being handled
    hpc,        \* per in-flight slot: the await the handler is suspended at
    local,      \* per in-flight slot: the handler's local constants
    response,   \* per in-flight slot: the Response returned (or null)
    dayObjs,    \* the heap: the ForecastDay objects
    arrays,     \* the heap: the arrays, each the addresses of its days
    runs,       \* the heap: the BestWindow objects
    frames,     \* per call of findBestWindow: its argument and locals
    pc          \* position of the caller

scoreVars == <<low, high, dayScore>>

coreVars == <<inDays, window, rec>>

seasonVars == <<hostTz, argDoy, argYear, isoDate, argLatitude, seasonDoys, seasonInfo>>

handlerVars == <<env, kv, weather, request, hpc, local, response>>

\* what the Worker's steps leave alone
heapVars == <<dayObjs, arrays, runs, frames>>

restVars == <<scoreVars, coreVars, seasonVars, heapVars, pc>>

\* what the calls on the heap leave alone
restFrame == <<scoreVars, coreVars, seasonVars, handlerVars, pc>>

vars == <<scoreVars, coreVars, seasonVars, handlerVars, heapVars, pc>>

----------------------------------------------------------------------------
(* Bounds of the model *)

\* longest day sequence drawn over every temperature pair
MaxDays == 3
\* longest day sequence drawn over the pairs of one low temperature
MaxLong == 8
\* longest day sequence that is paired with a hand-built window argument
MaxArgDays == 1
\* most days of a hand-built window argument
MaxWin == 3
\* scoreDay is applied to every pair of temperatures in -TempSpan..TempSpan
TempSpan == 12

----------------------------------------------------------------------------
(* Nullable values *)

NULL == <<>>

Some(x) == <<x>>

----------------------------------------------------------------------------
(* Scoring constants, in degrees Celsius *)

FREEZE_THRESHOLD == 0
THAW_THRESHOLD == 2
IDEAL_LOW_MIN == -7
IDEAL_LOW_MAX == -2
IDEAL_HIGH_MIN == 4
IDEAL_HIGH_MAX == 10

----------------------------------------------------------------------------
(* scoreDay *)

\* lowInIdeal with the lower edge excluded
lowInIdeal_strict(tempLow) == tempLow > IDEAL_LOW_MIN /\ tempLow <= IDEAL_LOW_MAX

lowInIdeal(tempLow) == tempLow >= IDEAL_LOW_MIN /\ tempLow <= IDEAL_LOW_MAX

highInIdeal(tempHigh) == tempHigh >= IDEAL_HIGH_MIN /\ tempHigh <= IDEAL_HIGH_MAX

scoreDay(tempLow, tempHigh) ==
    LET freezes == tempLow < FREEZE_THRESHOLD
        thaws == tempHigh > THAW_THRESHOLD
    IN  IF ~freezes \/ ~thaws
        THEN [rating |-> "poor", score |-> 0]
        ELSE IF lowInIdeal(tempLow) /\ highInIdeal(tempHigh)
        THEN [rating |-> "excellent", score |-> 3]
        ELSE IF lowInIdeal(tempLow) \/ highInIdeal(tempHigh)
        THEN [rating |-> "good", score |-> 2]
        ELSE [rating |-> "fair", score |-> 1]

\* One element of handleForecast's dailyData.map: a day with a missing
\* temperature is rated unknown without calling scoreDay.
ForecastDayOf_zeroAbsent(date, tempHigh, tempLow) ==
    LET ds == IF tempHigh \notin {NULL, Some(0)} /\ tempLow \notin {NULL, Some(0)}
              THEN scoreDay(tempLow[1], tempHigh[1])
              ELSE [rating |-> "unknown", score |-> 0]
    IN  [date |-> date, tempHigh |-> tempHigh, tempLow |-> tempLow,
         summary |-> "", icon |-> "",
         rating |-> ds.rating, score |-> ds.score]

ForecastDayOf(date, tempHigh, tempLow) ==
    LET ds == IF tempHigh # NULL /\ tempLow # NULL
              THEN scoreDay(tempLow[1], tempHigh[1])
              ELSE [rating |-> "unknown", score |-> 0]
    IN  [date |-> date, tempHigh |-> tempHigh, tempLow |-> tempLow,
         summary |-> "", icon |-> "",
         rating |-> ds.rating, score |-> ds.score]

----------------------------------------------------------------------------
(* findBestWindow *)

\* Qualifies for excellent days only
Qualifies_excellent(day) == day.score >= 3

\* Qualifies decided by the rating, unknown not excluded
Qualifies_byRating(day) == day.rating \notin {"poor", "fair"}

\* line 75: the day is Good or Excellent
Qualifies(day) == day.score >= 2

\* Extend that pushes the day without adding its score
Extend_noSum(currentRun, day) ==
    IF currentRun = NULL
    THEN Some([start |-> day.date, end |-> day.date,
               days |-> <<day>>, totalScore |-> day.score])
    ELSE Some([currentRun[1] EXCEPT !.days = Append(@, day)])

\* lines 77-82: open a run on the day, or push the day onto the open run
Extend(currentRun, day) ==
    IF currentRun = NULL
    THEN Some([start |-> day.date, end |-> day.date,
               days |-> <<day>>, totalScore |-> day.score])
    ELSE Some([currentRun[1] EXCEPT !.days = Append(@, day),
                                    !.totalScore = @ + day.score])

\* Replaces comparing total scores only
Replaces_byScore(run, bestRun) ==
    \/ bestRun = NULL
    \/ run.totalScore > bestRun[1].totalScore

\* Replaces without the total-score tie-break
Replaces_noTieBreak(run, bestRun) ==
    \/ bestRun = NULL
    \/ Len(run.days) > Len(bestRun[1].days)

\* Replaces with a tie on length and total score going to the later run
Replaces_lastTie(run, bestRun) ==
    \/ bestRun = NULL
    \/ Len(run.days) > Len(bestRun[1].days)
    \/ /\ Len(run.days) = Len(bestRun[1].days)
       /\ run.totalScore >= bestRun[1].totalScore

\* lines 86-87 and 97-98: the closed run replaces the best so far
Replaces(run, bestRun) ==
    \/ bestRun = NULL
    \/ Len(run.days) > Len(bestRun[1].days)
    \/ /\ Len(run.days) = Len(bestRun[1].days)
       /\ run.totalScore > bestRun[1].totalScore

\* lines 84-90 and 95-100: close the open run, if any; the new bestRun
CloseRun(bestRun, currentRun) ==
    IF currentRun # NULL
    THEN LET run == [currentRun[1] EXCEPT
                        !.end = currentRun[1].days[Len(currentRun[1].days)].date]
         IN  IF Replaces(run, bestRun) THEN Some(run) ELSE bestRun
    ELSE bestRun

\* lines 74-93: one iteration of the for loop
LoopBody(st, day) ==
    IF Qualifies(day)
    THEN [bestRun |-> st.bestRun, currentRun |-> Extend(st.currentRun, day)]
    ELSE [bestRun |-> CloseRun(st.bestRun, st.currentRun), currentRun |-> NULL]

RECURSIVE ScanFrom(_, _, _)
ScanFrom(days, i, st) ==
    IF i > Len(days) THEN st ELSE ScanFrom(days, i + 1, LoopBody(st, days[i]))

\* findBestWindow without the close of the trailing run
findBestWindow_noTrailing(days) ==
    ScanFrom(days, 1, [bestRun |-> NULL, currentRun |-> NULL]).bestRun

findBestWindow(days) ==
    LET st == ScanFrom(days, 1, [bestRun |-> NULL, currentRun |-> NULL])
    IN  CloseRun(st.bestRun, st.currentRun)

----------------------------------------------------------------------------
(* formatDate *)

IsLeap(y) == (y % 4 = 0 /\ y % 100 # 0) \/ y % 400 = 0

DaysInMonth(y, m) ==
    IF m = 2 THEN (IF IsLeap(y) THEN 29 ELSE 28)
    ELSE IF m \in {4, 6, 9, 11} THEN 30 ELSE 31

\* Day of the week of a Gregorian date, 0 = Sunday (what Date computes)
DayOfWeek(y, m, d) ==
    LET t == <<0, 3, 2, 5, 0, 3, 5, 1, 4, 6, 2, 4>>
        yy == IF m < 3 THEN y - 1 ELSE y
    IN  (yy + (yy \div 4) - (yy \div 100) + (yy \div 400) + t[m] + d) % 7

WeekdayShort == <<"Sun", "Mon", "Tue", "Wed", "Thu", "Fri", "Sat">>

MonthShort == <<"Jan", "Feb", "Mar", "Apr", "May", "Jun",
                "Jul", "Aug", "Sep", "Oct", "Nov", "Dec">>

\* toLocaleDateString('en-US', {weekday: 'short', month: 'short',
\* day: 'numeric'}) of local noon of the date: 'Tue, Feb 17'
formatDate(dateStr) ==
    <<WeekdayShort[DayOfWeek(dateStr[1], dateStr[2], dateStr[3]) + 1], ", ",
      MonthShort[dateStr[2]], " ", ToString(dateStr[3])>>

----------------------------------------------------------------------------
(* generateRecommendation *)

RecommendationType == {"tap_now", "upcoming", "no_window", "season_over", "too_cold"}

\* a TypeError raised by reading a property of undefined
Thrown(what) == [type |-> "TypeError", message |-> <<what>>]

\* allWarm failing on the empty sequence
allWarm_some(days) ==
    /\ Len(days) > 0
    /\ \A i \in 1..Len(days) :
          days[i].tempLow # NULL /\ days[i].tempLow[1] > FREEZE_THRESHOLD

\* allWarm skipping the days whose low is missing
allWarm_skipNull(days) ==
    \A i \in 1..Len(days) :
        days[i].tempLow # NULL => days[i].tempLow[1] > FREEZE_THRESHOLD

\* line 109
allWarm(days) ==
    \A i \in 1..Len(days) :
        days[i].tempLow # NULL /\ days[i].tempLow[1] > FREEZE_THRESHOLD

\* line 114
allFrozen(days) ==
    \A i \in 1..Len(days) :
        days[i].tempHigh # NULL /\ days[i].tempHigh[1] <= THAW_THRESHOLD

\* lines 108-118: the branch taken when there is no window
NoWindowRecommendation(days) ==
    IF allWarm(days)
    THEN [type |-> "season_over",
          message |-> <<"Season may be over - no freezing nights in the forecast.">>]
    ELSE IF allFrozen(days)
    THEN [type |-> "too_cold",
          message |-> <<"Too cold - daytime temperatures aren't rising above freezing yet.">>]
    ELSE [type |-> "no_window",
          message |-> <<"No strong tapping window in the current forecast.">>]

\* IsSingleDay also taking two-day windows
IsSingleDay_upToTwo(len) == len <= 2

\* line 126
IsSingleDay(len) == len = 1

\* QualityOf with the threshold compared strictly
QualityOf_strict(totalScore, len) ==
    IF 2 * totalScore > 5 * len THEN "excellent" ELSE "good"

\* lines 134-135: avgScore = totalScore / len, excellent when avgScore >= 2.5;
\* the quotient of two small integers is compared with 5/2 exactly
QualityOf(totalScore, len) ==
    IF 2 * totalScore >= 5 * len THEN "excellent" ELSE "good"

\* IsLongStretch starting one day later
IsLongStretch_late(len) == len > 3

\* lines 138 and 146: len >= 3
IsLongStretch(len) == len >= 3

\* IsToday that also accepts the second day of the forecast
IsToday_orTomorrow(startDate, days) ==
    \E k \in {k \in 1..2 : k <= Len(days)} : startDate = days[k].date

\* line 122: startDate === days[0].date
IsToday(startDate, days) == startDate = days[1].date

\* lines 121-150: the branch taken when days[0] exists and the window has days
WindowRecommendation(days, bestWindow) ==
    LET startDate == bestWindow.start
        isToday == IsToday(startDate, days)
        len == Len(bestWindow.days)
    IN  IF IsSingleDay(len)
        THEN LET when == IF isToday THEN <<"today">>
                         ELSE <<"coming ">> \o formatDate(startDate)
             IN  [type |-> "no_window",
                  message |-> <<"Only a brief 1-day window ">> \o when \o
                      <<" - longer freeze-thaw runs produce much better sap flow.">>]
        ELSE LET quality == QualityOf(bestWindow.totalScore, len)
             IN  IF isToday
                 THEN LET stretch == IF IsLongStretch(len)
                                     THEN <<" Great stretch for strong sap flow.">>
                                     ELSE <<>>
                      IN  [type |-> "tap_now",
                           message |-> <<"Tap now - ", quality,
                                         " conditions for the next ",
                                         ToString(len), " days.">> \o stretch]
                 ELSE LET windowQuality == IF IsLongStretch(len)
                                           THEN "Great" ELSE "Good"
                      IN  [type |-> "upcoming",
                           message |-> <<windowQuality, " window coming ">> \o
                               formatDate(startDate) \o
                               <<" - ", ToString(len),
                                 " days of favorable conditions.">>]

\* generateRecommendation taking a window of one day for no window
generateRecommendation_briefAsNone(days, bestWindow) ==
    IF bestWindow = NULL \/ Len(bestWindow[1].days) <= 1
    THEN NoWindowRecommendation(days)
    ELSE IF Len(days) = 0
    THEN Thrown("Cannot read properties of undefined (reading 'date')")
    ELSE WindowRecommendation(days, bestWindow[1])

generateRecommendation(days, bestWindow) ==
    IF bestWindow = NULL \/ Len(bestWindow[1].days) = 0
    THEN NoWindowRecommendation(days)
    ELSE IF Len(days) = 0
    THEN Thrown("Cannot read properties of undefined (reading 'date')")
    ELSE WindowRecommendation(days, bestWindow[1])

----------------------------------------------------------------------------
(* doyToDate and getSeasonInfo (src/unnamed/part_003).                     *)
(* A latitude is a binary64 number.  Every number getSeasonInfo computes   *)
(* with has at most 49 binary digits after the point, so a number is the   *)
(* record [neg, w, h, l] of its sign, its whole part w, the first 24       *)
(* fractional bits h and the next 25 fractional bits l: its magnitude is   *)
(* w + h / 2^24 + l / 2^49.  Each arithmetic operation computes the exact  *)
(* result and rounds it to the nearest binary64 value, a tie going to the  *)
(* even significand, as IEEE 754 does.                                     *)

\* a latitude argument is the binary64 value nearest to a multiple of
\* 1/LatDen degrees
LatDen == 10
\* latitude arguments range over -LatMax..LatMax degrees
LatMax == 90
\* doy arguments range over 1..MaxDoy
MaxDoy == 366

SEASON_REFERENCE_POINTS ==
    << [lat |-> 39, tapByDoy |-> 45,  seasonEndDoy |-> 59],
       [lat |-> 43, tapByDoy |-> 65,  seasonEndDoy |-> 79],
       [lat |-> 45, tapByDoy |-> 76,  seasonEndDoy |-> 90],
       [lat |-> 47, tapByDoy |-> 94,  seasonEndDoy |-> 108],
       [lat |-> 49, tapByDoy |-> 104, seasonEndDoy |-> 118] >>

\* new Date(year, 0, doy): the local calendar day, the day of the month
\* carried over into the following months (and years)
RECURSIVE LocalDate(_, _, _)
LocalDate(y, m, d) ==
    IF d <= DaysInMonth(y, m) THEN <<y, m, d>>
    ELSE IF m < 12 THEN LocalDate(y, m + 1, d - DaysInMonth(y, m))
    ELSE LocalDate(y + 1, 1, d - DaysInMonth(y, m))

PrevDate(date) ==
    IF date[3] > 1 THEN <<date[1], date[2], date[3] - 1>>
    ELSE IF date[2] > 1
    THEN <<date[1], date[2] - 1, DaysInMonth(date[1], date[2] - 1)>>
    ELSE <<date[1] - 1, 12, 31>>

\* toISOString().split('T')[0] of local midnight of the date: the UTC
\* calendar day of that instant, which is the day before when local time
\* is ahead of UTC
UtcDateOfLocalMidnight(date, tz) == IF tz > 0 THEN PrevDate(date) ELSE date

doyToDate(doy, year) == UtcDateOfLocalMidnight(LocalDate(year, 1, doy), hostTz)

\* the magnitude of a whole number
Abs(x) == IF x < 0 THEN 0 - x ELSE x

\* Math.round truncating instead
MathRound_trunc(num, den) == num \div den

\* Math.round(num / den), den > 0: the nearest integer, a half rounded up
MathRound(num, den) == (2 * num + den) \div (2 * den)

\* the weights of the limbs: h counts 2^-24 and l counts 2^-49
HiUnit == 2 ^ 24

LoUnit == 2 ^ 25

\* the non-negative number w + h / 2^24 + l / 2^49 with its limbs in range
Normalize(w, h, l) ==
    LET h1 == h + (l \div LoUnit)
    IN  [neg |-> FALSE, w |-> w + (h1 \div HiUnit), h |-> h1 % HiUnit, l |-> l % LoUnit]

\* a whole number as a binary64 value
Whole(n) == [neg |-> n < 0, w |-> Abs(n), h |-> 0, l |-> 0]

\* the distance between consecutive binary64 values at magnitude w, in
\* units of 2^-49: 2^-52 times the power of two at or below w.  Below 8
\* the binary64 values are closer than 2^-49 and every multiple of 2^-49
\* is one of them.
RECURSIVE Ulp(_)
Ulp(w) == IF w < 16 THEN 1 ELSE 2 * Ulp(w \div 2)

\* the multiple of g nearest to num / den, a tie going to the even multiple
NearestEven(num, den, g) ==
    LET q == num \div (den * g)
        r == num % (den * g)
        up == 2 * r > den * g \/ (2 * r = den * g /\ q % 2 = 1)
    IN  (IF up THEN q + 1 ELSE q) * g

\* IEEE 754 round to nearest, ties to even, of a non-negative exact result
RoundToBinary64(x) == Normalize(x.w, x.h, NearestEven(x.l, 1, Ulp(x.w)))

\* the binary64 value of the decimal num / den: the nearest one, and below
\* 8 the nearest with 49 fractional bits
Binary64Of(num, den) ==
    LET a == Abs(num)
        w == a \div den
        hNum == (a % den) * HiUnit
        lNum == (hNum % den) * LoUnit
        x == Normalize(w, hNum \div den, NearestEven(lNum, den, Ulp(w)))
    IN  [x EXCEPT !.neg = num < 0]

\* a <= b for magnitudes
MagLeq(a, b) ==
    \/ a.w < b.w
    \/ a.w = b.w /\ a.h < b.h
    \/ a.w = b.w /\ a.h = b.h /\ a.l <= b.l

IsZero(a) == a.w = 0 /\ a.h = 0 /\ a.l = 0

\* a <= b of two binary64 values
Leq(a, b) ==
    IF a.neg /\ b.neg THEN MagLeq(b, a)
    ELSE IF a.neg THEN TRUE
    ELSE IF b.neg THEN IsZero(a) /\ IsZero(b)
    ELSE MagLeq(a, b)

MathAbs(x) == [x EXCEPT !.neg = FALSE]

MathMax(a, b) == IF Leq(b, a) THEN a ELSE b

MathMin(a, b) == IF Leq(a, b) THEN a ELSE b

\* a - b for a >= b >= 0
Minus(a, b) == RoundToBinary64(Normalize(a.w - b.w, a.h - b.h, a.l - b.l))

\* a / k for a >= 0 and a whole k > 0, to 49 fractional bits: the binary64
\* quotient whenever a / k is 8 or more or has no further bits, as it has
\* for the spans 2 and 4 of the table
DividedBy(a, k) ==
    LET hNum == (a.w % k) * HiUnit + a.h
        lNum == (hNum % k) * LoUnit + a.l
    IN  RoundToBinary64(Normalize(a.w \div k, hNum \div k, NearestEven(lNum, k, 1)))

\* a * k for a >= 0 and a whole k >= 0
Times(a, k) == RoundToBinary64(Normalize(a.w * k, a.h * k, a.l * k))

\* k + a for a >= 0 and a whole k >= 0
Plus(k, a) == RoundToBinary64(Normalize(k + a.w, a.h, a.l))

\* Math.round of a non-negative binary64 value: the whole part, plus one
\* when the fraction is a half or more
MathRoundOf(x) == x.w + (IF 2 * x.h >= HiUnit THEN 1 ELSE 0)

\* NormalizeLat without Math.abs
NormalizeLat_noAbs(latitude) ==
    MathMin(Whole(49), MathMax(Whole(39), latitude))

\* line 181: Math.min(49, Math.max(39, Math.abs(latitude)))
NormalizeLat(latitude) ==
    MathMin(Whole(49), MathMax(Whole(39), MathAbs(latitude)))

\* lines 193-199: the first i with pts[i].lat <= lat <= pts[i + 1].lat,
\* (lower, upper) staying (pts[0], pts[1]) when there is none
RECURSIVE Bracket(_, _)
Bracket(lat, i) ==
    LET pts == SEASON_REFERENCE_POINTS
    IN  IF i > Len(pts) - 1 THEN <<1, 2>>
        ELSE IF Leq(Whole(pts[i].lat), lat) /\ Leq(lat, Whole(pts[i + 1].lat))
        THEN <<i, i + 1>>
        ELSE Bracket(lat, i + 1)

\* lines 200-202: Math.round(lowerValue + t * (upperValue - lowerValue))
\* with t = (lat - lower.lat) / (upper.lat - lower.lat)
Interpolate(lat, lowerLat, upperLat, lowerValue, upperValue) ==
    LET t == DividedBy(Minus(lat, Whole(lowerLat)), upperLat - lowerLat)
    IN  MathRoundOf(Plus(lowerValue, Times(t, upperValue - lowerValue)))

\* lines 181-203: the locals tapByDoy and seasonEndDoy
SeasonDoysOf(latitude) ==
    LET lat == NormalizeLat(latitude)
        pts == SEASON_REFERENCE_POINTS
    IN  IF Leq(lat, Whole(pts[1].lat))
        THEN [tapByDoy |-> pts[1].tapByDoy, seasonEndDoy |-> pts[1].seasonEndDoy]
        ELSE IF Leq(Whole(pts[Len(pts)].lat), lat)
        THEN [tapByDoy |-> pts[Len(pts)].tapByDoy,
              seasonEndDoy |-> pts[Len(pts)].seasonEndDoy]
        ELSE LET b == Bracket(lat, 1)
                 lower == pts[b[1]]
                 upper == pts[b[2]]
             IN  [tapByDoy |-> Interpolate(lat, lower.lat, upper.lat,
                                           lower.tapByDoy, upper.tapByDoy),
                  seasonEndDoy |-> Interpolate(lat, lower.lat, upper.lat,
                                               lower.seasonEndDoy,
                                               upper.seasonEndDoy)]

getSeasonInfo(latitude, year) ==
    LET doys == SeasonDoysOf(latitude)
        tapByDate == doyToDate(doys.tapByDoy, year)
        seasonEndDate == doyToDate(doys.seasonEndDoy, year)
        tapByFormatted == formatDate(tapByDate)
        seasonEndFormatted == formatDate(seasonEndDate)
    IN  [tapByDate |-> tapByDate,
         seasonEndDate |-> seasonEndDate,
         message |->
            <<"Based on your latitude, sap season typically wraps up around ">>
            \o seasonEndFormatted \o <<". ">>
            \o <<"If you haven't seen an ideal window by ">>
            \o tapByFormatted \o <<", tap your trees anyway - ">>
            \o <<"early tapping doesn't reduce yield, and you'll catch any remaining freeze-thaw cycles.">>]

\* The years the functions are called with: four-digit years, leap and
\* not, a century year of each kind
Years == {2000, 2024, 2026, 2100}

\* UTC offsets of the host: the extremes, UTC, and one hour either side
TzOffsets == {-12, -1, 0, 1, 14}

NoDate == <<0, 0, 0>>

NoDoys == [tapByDoy |-> 0, seasonEndDoy |-> 0]

NoSeasonInfo == [tapByDate |-> NoDate, seasonEndDate |-> NoDate, message |-> <<>>]

\* nothing of the season functions has been called
SeasonIdle ==
    /\ hostTz = 0
    /\ argDoy = 0
    /\ argYear = 0
    /\ isoDate = NoDate
    /\ argLatitude = 0
    /\ seasonDoys = NoDoys
    /\ seasonInfo = NoSeasonInfo

----------------------------------------------------------------------------
(* The inputs the functions are applied to *)

\* The date of the first forecast day; the days of a sequence are
\* consecutive calendar days from it (they cross a month boundary).
FirstDate == <<2026, 2, 27>>

NextDate(date) ==
    IF date[3] < DaysInMonth(date[1], date[2])
    THEN <<date[1], date[2], date[3] + 1>>
    ELSE IF date[2] < 12 THEN <<date[1], date[2] + 1, 1>>
    ELSE <<date[1] + 1, 1, 1>>

RECURSIVE DateAt(_)
DateAt(i) == IF i <= 1 THEN FirstDate ELSE NextDate(DateAt(i - 1))

\* Low and high temperatures a forecast entry may carry: missing, and
\* values on both sides of every threshold scoreDay and the
\* season_over / too_cold checks compare against.
Lows == {NULL} \cup {Some(t) : t \in {-10, -5, 0, 1}}

Highs == {NULL} \cup {Some(t) : t \in {2, 6, 12}}

\* The pairs of the long sequences: a poor, an excellent and a good day
LongLows == {Some(-5)}

LongHighs == {Some(2), Some(6), Some(12)}

\* The day sequence handleForecast builds from the entries temps[1..n]
DaysOf(temps) ==
    [i \in 1..Len(temps) |-> ForecastDayOf(DateAt(i), temps[i][2], temps[i][1])]

\* The day sequences the functions are called with: every sequence of
\* up to MaxDays entries over all temperature pairs, and every sequence
\* of up to MaxLong entries over the pairs of the long sequences.
IsInput(days) ==
    \/ \E n \in 0..MaxDays : \E t \in [1..n -> Lows \X Highs] : days = DaysOf(t)
    \/ \E n \in 0..MaxLong :
          \E t \in [1..n -> LongLows \X LongHighs] : days = DaysOf(t)

\* The temperature pairs of the days a window may hold
QualifyingPairs ==
    {p \in Lows \X Highs : Qualifies(ForecastDayOf(FirstDate, p[2], p[1]))}

RECURSIVE SumScores(_)
SumScores(ds) == IF ds = <<>> THEN 0 ELSE ds[1].score + SumScores(Tail(ds))

\* A BestWindow object built by hand, as the tests and other callers of
\* the exported generateRecommendation may: n qualifying days on
\* consecutive dates from the s-th date (n = 0: the empty window that
\* generateRecommendation guards against).
WindowOf(s, temps) ==
    LET ds == [k \in 1..Len(temps) |->
                  ForecastDayOf(DateAt(s + k - 1), temps[k][2], temps[k][1])]
    IN  [start |-> DateAt(s),
         end |-> DateAt(IF Len(temps) = 0 THEN s ELSE s + Len(temps) - 1),
         days |-> ds,
         totalScore |-> SumScores(ds)]

WindowsFrom(s, n) == {WindowOf(s, t) : t \in [1..n -> QualifyingPairs]}

WindowArgs ==
    {NULL} \cup
    {Some(w) : w \in UNION {WindowsFrom(s, n) : s \in 1..2, n \in 0..MaxWin}}

NoScore == [rating |-> "none", score |-> 0]

NoRec == [type |-> "none", message |-> <<>>]

----------------------------------------------------------------------------
(* handleForecast and the Worker's fetch router (src/src/index.ts).        *)
(* A query parameter is the sequence of its characters.  A coordinate is   *)
(* a whole number of hundredths of a degree and a rounded coordinate a     *)
(* whole number of tenths: for every coordinate of at most two decimals    *)
(* in -180..180 the binary64 value of Math.round(x * 10) is the exact      *)
(* half-up rounding computed here.                                         *)

\* most requests in flight at once
MaxReq == 2
\* most entries of weather.daily.data
MaxEntries == 3

CACHE_TTL == 10800

DigitChars == <<"0", "1", "2", "3", "4", "5", "6", "7", "8", "9">>

IsDigit(c) == \E i \in 1..Len(DigitChars) : DigitChars[i] = c

DigitVal(c) == (CHOOSE i \in 1..Len(DigitChars) : DigitChars[i] = c) - 1

\* how many digits str carries from position i on
RECURSIVE DigitRun(_, _)
DigitRun(str, i) ==
    IF i <= Len(str) /\ IsDigit(str[i]) THEN 1 + DigitRun(str, i + 1) ELSE 0

RECURSIVE DigitsValue(_)
DigitsValue(digits) ==
    IF digits = <<>> THEN 0
    ELSE DigitsValue(SubSeq(digits, 1, Len(digits) - 1)) * 10
            + DigitVal(digits[Len(digits)])

\* parseFloat, which reads the longest prefix that is a decimal literal
\* and ignores what follows it; NaN is NULL.  The value is in
\* hundredths (decimals past the second are not drawn); exponents,
\* leading white space and Infinity are not drawn either.
parseFloat(str) ==
    LET signed == Len(str) >= 1 /\ str[1] \in {"-", "+"}
        i0 == IF signed THEN 2 ELSE 1
        nInt == DigitRun(str, i0)
        dot == i0 + nInt
        hasDot == dot <= Len(str) /\ str[dot] = "."
        nFrac == IF hasDot THEN DigitRun(str, dot + 1) ELSE 0
        magnitude ==
            DigitsValue(SubSeq(str, i0, dot - 1)) * 100
            + (IF nFrac >= 1 THEN DigitVal(str[dot + 1]) * 10 ELSE 0)
            + (IF nFrac >= 2 THEN DigitVal(str[dot + 2]) ELSE 0)
    IN  IF nInt + nFrac = 0 THEN NULL
        ELSE Some(IF signed /\ str[1] = "-" THEN 0 - magnitude ELSE magnitude)

\* url.searchParams.get(name) ?? ''
ParamOrEmpty(param) == IF param = NULL THEN <<>> ELSE param[1]

\* Math.round(x * 10) / 10, in tenths
RoundToTenth_truncate(x) == MathRound_trunc(x, 10)

RoundToTenth(x) == MathRound(x, 10)

\* `forecast:${rlat}:${rlon}`
CacheKeyOf(lat, lon) == <<"forecast:", RoundToTenth(lat), ":", RoundToTenth(lon)>>

\* a ?? b
Coalesce(a, b) == IF a # NULL THEN a ELSE b

\* JSON.stringify(result) and the 'json' read of the namespace: the text
\* is kept as the value it denotes; every field of a ForecastResult is a
\* string, a finite number, a boolean, null, an array or an object, which
\* JSON carries unchanged.
JSONStringify(value) == [json |-> value]

JSONParse(text) == text.json

\* FORECAST_CACHE.get(key, 'json'): the parsed value, or null
KvGet(entries, key) ==
    IF \E e \in entries : e.key = key
    THEN Some(JSONParse((CHOOSE e \in entries : e.key = key).value))
    ELSE NULL

\* FORECAST_CACHE.put(key, value, { expirationTtl })
KvPut(entries, key, value, ttl) ==
    {e \in entries : e.key # key}
        \cup {[key |-> key, value |-> value, expirationTtl |-> ttl]}

\* Response.json(body, { status })
JsonResponse(body, status) ==
    [status |-> status, contentType |-> "application/json", body |-> body]

ErrorBody(message) == [error |-> message]

\* the handler's promise rejects: it returns no Response
Uncaught(what) ==
    [status |-> 0, contentType |-> "", body |-> [uncaught |-> what]]

RobotsResponse ==
    [status |-> 200, contentType |-> "text/plain",
     body |-> [text |-> "User-agent: *\nAllow: /\n"]]

HtmlResponse ==
    [status |-> 200, contentType |-> "text/html;charset=UTF-8",
     body |-> [html |-> "getHTML()"]]

\* The day number since the epoch of FirstDate, 2026-02-27
FirstEpochDay == 20511

SecondsPerDay == 86400

\* new Date(time * 1000).toISOString().split('T')[0], for the times from
\* FirstDate on: the UTC date the second falls on
ISODateOfTime(time) == DateAt((time \div SecondsPerDay) - FirstEpochDay + 1)

\* weather.currently || {} and the three ?? of the current conditions
CurrentOf(body) ==
    LET currently ==
            IF body.currently # NULL THEN body.currently[1]
            ELSE [temperature |-> NULL, summary |-> NULL, icon |-> NULL]
    IN  [temperature |-> currently.temperature,
         summary |-> Coalesce(currently.summary, Some(""))[1],
         icon |-> Coalesce(currently.icon, Some(""))[1]]

\* weather.daily?.data || []
DailyDataOf(body) == IF body.dailyData # NULL THEN body.dailyData[1] ELSE <<>>

TempHighOf(d) == Coalesce(d.temperatureHigh, d.temperatureMax)

TempLowOf(d) == Coalesce(d.temperatureLow, d.temperatureMin)

\* the callback of dailyData.map
ForecastDayOfEntry(d) ==
    [ForecastDayOf(ISODateOfTime(d.time[1]), TempHighOf(d), TempLowOf(d))
        EXCEPT !.summary = Coalesce(d.summary, Some(""))[1],
               !.icon = Coalesce(d.icon, Some(""))[1]]

\* the arguments the callback passes to scoreDay, or null when it does
\* not call it
ScoreDayCallOf(d) ==
    IF TempHighOf(d) # NULL /\ TempLowOf(d) # NULL
    THEN Some(<<TempLowOf(d)[1], TempHighOf(d)[1]>>)
    ELSE NULL

RECURSIVE GCD(_, _)
GCD(a, b) == IF b = 0 THEN a ELSE GCD(b, a % b)

\* the number num / den, as the fraction in lowest terms
Quotient(num, den) == <<num \div GCD(num, den), den \div GCD(num, den)>>

\* the bestWindow field of the result
WindowSummary_bySum(bestWindow) ==
    IF bestWindow # NULL
    THEN Some([startDate |-> bestWindow[1].start,
               endDate |-> bestWindow[1].end,
               length |-> Len(bestWindow[1].days),
               avgScore |-> Quotient(bestWindow[1].totalScore, 1)])
    ELSE NULL

WindowSummary(bestWindow) ==
    IF bestWindow # NULL
    THEN Some([startDate |-> bestWindow[1].start,
               endDate |-> bestWindow[1].end,
               length |-> Len(bestWindow[1].days),
               avgScore |-> Quotient(bestWindow[1].totalScore,
                                     Len(bestWindow[1].days))])
    ELSE NULL

\* new Date(NaN).toISOString() throws: an entry without a time
HasInvalidTime(body) ==
    \E i \in 1..Len(DailyDataOf(body)) : DailyDataOf(body)[i].time = NULL

DaysOfBody(body) ==
    [i \in 1..Len(DailyDataOf(body)) |-> ForecastDayOfEntry(DailyDataOf(body)[i])]

ScoreDayCallsOf(body) ==
    [i \in 1..Len(DailyDataOf(body)) |-> ScoreDayCallOf(DailyDataOf(body)[i])]

\* the ForecastResult of lines 119-131
ForecastResultOf(body) ==
    LET days == DaysOfBody(body)
        bestWindow == findBestWindow(days)
    IN  [current |-> CurrentOf(body),
         today |-> IF Len(days) > 0 THEN Some(days[1]) ELSE NULL,
         days |-> days,
         bestWindow |-> WindowSummary(bestWindow),
         recommendation |-> generateRecommendation(days, bestWindow),
         cached |-> FALSE]

----------------------------------------------------------------------------
(* The requests, the environment and the upstream bodies they meet *)

Chars_45_23 == <<"4", "5", ".", "2", "3">>

Chars_45_25 == <<"4", "5", ".", "2", "5">>

Chars_45_2x == <<"4", "5", ".", "2", "x">>

Chars_abc == <<"a", "b", "c">>

Chars_m73_95 == <<"-", "7", "3", ".", "9", "5">>

RequestOf(path, lat, lon) == [path |-> path, lat |-> lat, lon |-> lon]

\* Requests of several slots in flight at once: a static route, a
\* rejected forecast request and two forecast requests whose different
\* coordinates round to one cache key.
ConcurrentRequests ==
    {RequestOf("/robots.txt", NULL, NULL),
     RequestOf("/api/forecast", NULL, Some(Chars_m73_95)),
     RequestOf("/api/forecast", Some(Chars_45_23), Some(Chars_m73_95)),
     RequestOf("/api/forecast", Some(Chars_45_2x), Some(Chars_m73_95))}

\* Requests handled one at a time: every route, every way a coordinate
\* is missing or not a number, and coordinates on both sides of a
\* rounding tie.
Requests ==
    ConcurrentRequests \cup
    {RequestOf("/", NULL, NULL),
     RequestOf("/api/forecast/", Some(Chars_45_23), Some(Chars_m73_95)),
     RequestOf("/api/forecast", Some(Chars_abc), Some(Chars_m73_95)),
     RequestOf("/api/forecast", Some(Chars_45_23), Some(<<>>)),
     RequestOf("/api/forecast", Some(Chars_45_25), Some(Chars_m73_95))}

\* PIRATE_WEATHER_API_KEY: not set, set to '', set to a key
ApiKeys == {NULL, Some(""), Some("key")}

Envs == [PIRATE_WEATHER_API_KEY : ApiKeys, FORECAST_CACHE : BOOLEAN]

\* non-success statuses the upstream answers with
FailureStatuses == {429, 503}

\* d.time of the i-th entry: midnight of a zone five hours west of UTC
LocalMidnight == 18000

TimeOfEntry(i) == (FirstEpochDay + i - 1) * SecondsPerDay + LocalMidnight

\* The temperatures of an upstream entry: a plain excellent day; a good
\* day that only carries temperatureMax / temperatureMin; a day whose
\* temperatureLow is 0 beside a colder temperatureMin; a day without any
\* high temperature; a day that stays frozen; a day without frost.
EntryKinds ==
    {[temperatureHigh |-> Some(6), temperatureMax |-> NULL,
      temperatureLow |-> Some(-5), temperatureMin |-> NULL,
      summary |-> Some("Clear"), icon |-> Some("clear-day")],
     [temperatureHigh |-> NULL, temperatureMax |-> Some(12),
      temperatureLow |-> NULL, temperatureMin |-> Some(-5),
      summary |-> NULL, icon |-> NULL],
     [temperatureHigh |-> Some(6), temperatureMax |-> Some(12),
      temperatureLow |-> Some(0), temperatureMin |-> Some(-5),
      summary |-> Some("Cloudy"), icon |-> NULL],
     [temperatureHigh |-> NULL, temperatureMax |-> NULL,
      temperatureLow |-> Some(-5), temperatureMin |-> NULL,
      summary |-> NULL, icon |-> Some("snow")],
     [temperatureHigh |-> Some(1), temperatureMax |-> NULL,
      temperatureLow |-> Some(-10), temperatureMin |-> NULL,
      summary |-> Some("Snow"), icon |-> Some("snow")],
     [temperatureHigh |-> Some(12), temperatureMax |-> NULL,
      temperatureLow |-> Some(3), temperatureMin |-> NULL,
      summary |-> Some("Clear"), icon |-> Some("clear-day")]}

EntryOf(time, kind) ==
    [time |-> time,
     temperatureHigh |-> kind.temperatureHigh,
     temperatureMax |-> kind.temperatureMax,
     temperatureLow |-> kind.temperatureLow,
     temperatureMin |-> kind.temperatureMin,
     summary |-> kind.summary, icon |-> kind.icon]

Currentlys ==
    {NULL,
     Some([temperature |-> Some(3), summary |-> Some("Clear"),
           icon |-> Some("clear-day")]),
     Some([temperature |-> NULL, summary |-> NULL, icon |-> NULL])}

BodyOf(currently, kinds) ==
    [currently |-> currently,
     dailyData |-> Some([i \in 1..Len(kinds) |->
                            EntryOf(Some(TimeOfEntry(i)), kinds[i])])]

ExcellentKind == CHOOSE k \in EntryKinds : k.temperatureLow = Some(-5) /\ k.temperatureHigh = Some(6)

\* a body whose only entry has no time
TimelessBody ==
    [currently |-> NULL,
     dailyData |-> Some(<<EntryOf(NULL, ExcellentKind)>>)]

\* The bodies a single request may be answered with: without daily data,
\* with an entry that has no time, and with up to MaxEntries entries of
\* every kind.
IsForecastBody(body) ==
    \/ \E c \in Currentlys : body = [currently |-> c, dailyData |-> NULL]
    \/ body = TimelessBody
    \/ \E n \in 0..MaxEntries : \E kinds \in [1..n -> EntryKinds] :
          body = BodyOf(CHOOSE c \in Currentlys : c # NULL /\ c[1].temperature # NULL, kinds)

\* The bodies concurrent requests may be answered with: two excellent
\* days, and no daily data
ServedBodies ==
    {BodyOf(NULL, <<ExcellentKind, ExcellentKind>>),
     [currently |-> NULL, dailyData |-> NULL]}

Slots == 1..MaxReq

NoRequest == RequestOf("", NULL, NULL)

NoLocal ==
    [cacheKey |-> <<>>, steps |-> <<>>, apiResponse |-> NULL, body |-> NULL,
     calls |-> <<>>, bestWindow |-> NULL, result |-> NULL]

\* no request has been received
HandlerIdle ==
    /\ env = [PIRATE_WEATHER_API_KEY |-> NULL, FORECAST_CACHE |-> FALSE]
    /\ kv = {}
    /\ weather = [currently |-> NULL, dailyData |-> NULL]
    /\ request = [r \in Slots |-> NoRequest]
    /\ hpc = [r \in Slots |-> "idle"]
    /\ local = [r \in Slots |-> NoLocal]
    /\ response = [r \in Slots |-> NULL]

----------------------------------------------------------------------------
(* The objects findBestWindow and generateRecommendation work on.  A       *)
(* ForecastDay, an array of days and a BestWindow are objects of the heap, *)
(* known by their addresses (positions in dayObjs, arrays and runs); an     *)
(* array holds the addresses of its days and a run the address of its      *)
(* days array, so that two references to one object see each other's       *)
(* writes.                                                                 *)

\* most calls of findBestWindow in progress at once
MaxCalls == 2
\* most ForecastDay objects on the heap
MaxHeapDays == 2

Calls == 1..MaxCalls

\* the temperatures of the days on the heap: poor, excellent, good
HeapLows == {Some(-5)}

HeapHighs == {Some(2), Some(6), Some(12)}

\* the ForecastDay[] an address stands for
DaysAt(a) == [k \in 1..Len(arrays[a]) |-> dayObjs[arrays[a][k]]]

\* the BestWindow | null a reference stands for
RunAt(ref) ==
    IF ref = NULL THEN NULL
    ELSE Some([start |-> runs[ref[1]].start,
               end |-> runs[ref[1]].end,
               days |-> DaysAt(runs[ref[1]].days),
               totalScore |-> runs[ref[1]].totalScore])

\* line 78, `days: [day]`, with the run's array being the argument itself
AllocRunDays_alias(arrs, daysArg, d) == [heap |-> arrs, addr |-> daysArg]

\* line 78, `days: [day]`: a new array that holds the day
AllocRunDays(arrs, daysArg, d) ==
    [heap |-> Append(arrs, <<d>>), addr |-> Len(arrs) + 1]

IdleFrame ==
    [pc |-> "idle", daysArg |-> 0, i |-> 0, bestRun |-> NULL,
     currentRun |-> NULL, recommendation |-> NoRec]

\* nothing is on the heap and no call is in progress
HeapIdle ==
    /\ dayObjs = <<>>
    /\ arrays = <<>>
    /\ runs = <<>>
    /\ frames = [c \in Calls |-> IdleFrame]

----------------------------------------------------------------------------
(* The core pipeline: handleForecast's findBestWindow(days) followed by    *)
(* generateRecommendation(days, bestWindow), and direct calls of           *)
(* generateRecommendation with a window built by the caller.               *)

Init ==
    /\ low = 0
    /\ high = 0
    /\ dayScore = NoScore
    /\ IsInput(inDays)
    /\ window = NULL
    /\ rec = NoRec
    /\ SeasonIdle
    /\ HandlerIdle
    /\ HeapIdle
    /\ pc = "init"

\* const bestWindow = findBestWindow(days)
CallFindBestWindow ==
    /\ pc = "init"
    /\ window' = findBestWindow(inDays)
    /\ pc' = "found"
    /\ UNCHANGED <<scoreVars, inDays, rec, seasonVars, handlerVars, heapVars>>

\* const recommendation = generateRecommendation(days, bestWindow)
CallGenerateRecommendation ==
    /\ pc = "found"
    /\ rec' = generateRecommendation(inDays, window)
    /\ pc' = "done"
    /\ UNCHANGED <<scoreVars, inDays, window, seasonVars, handlerVars, heapVars>>

\* generateRecommendation(days, w) for a window w of the caller's making
CallGenerateRecommendationWith ==
    /\ pc = "init"
    /\ Len(inDays) <= MaxArgDays
    /\ \E w \in WindowArgs :
          /\ window' = w
          /\ rec' = generateRecommendation(inDays, w)
    /\ pc' = "doneWith"
    /\ UNCHANGED <<scoreVars, inDays, seasonVars, handlerVars, heapVars>>

Next ==
    \/ CallFindBestWindow
    \/ CallGenerateRecommendation
    \/ CallGenerateRecommendationWith

Spec == Init /\ [][Next]_vars

----------------------------------------------------------------------------
(* scoreDay applied to every temperature pair of the span *)

InitScoreDay ==
    /\ low \in (0 - TempSpan)..TempSpan
    /\ high \in (0 - TempSpan)..TempSpan
    /\ dayScore = NoScore
    /\ inDays = <<>>
    /\ window = NULL
    /\ rec = NoRec
    /\ SeasonIdle
    /\ HandlerIdle
    /\ HeapIdle
    /\ pc = "score"

CallScoreDay ==
    /\ pc = "score"
    /\ dayScore' = scoreDay(low, high)
    /\ pc' = "scored"
    /\ UNCHANGED <<low, high, coreVars, seasonVars, handlerVars, heapVars>>

NextScoreDay == CallScoreDay

SpecScoreDay == InitScoreDay /\ [][NextScoreDay]_vars

----------------------------------------------------------------------------
(* doyToDate and getSeasonInfo applied to their arguments, on a host of    *)
(* any UTC offset                                                          *)

InitSeason ==
    /\ low = 0
    /\ high = 0
    /\ dayScore = NoScore
    /\ inDays = <<>>
    /\ window = NULL
    /\ rec = NoRec
    /\ hostTz \in TzOffsets
    /\ argYear \in Years
    /\ isoDate = NoDate
    /\ seasonDoys = NoDoys
    /\ seasonInfo = NoSeasonInfo
    /\ HandlerIdle
    /\ HeapIdle
    /\ \/ /\ pc = "doy"
          /\ argDoy \in 1..MaxDoy
          /\ argLatitude = 0
       \/ /\ pc = "season"
          /\ argDoy = 0
          /\ argLatitude \in (0 - LatMax * LatDen)..(LatMax * LatDen)

CallDoyToDate ==
    /\ pc = "doy"
    /\ isoDate' = doyToDate(argDoy, argYear)
    /\ pc' = "dated"
    /\ UNCHANGED <<scoreVars, coreVars, hostTz, argDoy, argYear, argLatitude,
                   seasonDoys, seasonInfo, handlerVars, heapVars>>

CallGetSeasonInfo ==
    /\ pc = "season"
    /\ seasonDoys' = SeasonDoysOf(Binary64Of(argLatitude, LatDen))
    /\ seasonInfo' = getSeasonInfo(Binary64Of(argLatitude, LatDen), argYear)
    /\ pc' = "seasoned"
    /\ UNCHANGED <<scoreVars, coreVars, hostTz, argDoy, argYear, argLatitude,
                   isoDate, handlerVars, heapVars>>

NextSeason == CallDoyToDate \/ CallGetSeasonInfo

SpecSeason == InitSeason /\ [][NextSeason]_vars

----------------------------------------------------------------------------
(* The Worker: requests are received into slots, and each handler runs    *)
(* from one await to the next in a step, interleaved with the others.     *)

CoreIdle ==
    /\ low = 0
    /\ high = 0
    /\ dayScore = NoScore
    /\ inDays = <<>>
    /\ window = NULL
    /\ rec = NoRec
    /\ SeasonIdle
    /\ HeapIdle
    /\ pc = "worker"

Respond(r, resp) ==
    /\ response' = [response EXCEPT ![r] = Some(resp)]
    /\ hpc' = [hpc EXCEPT ![r] = "done"]

Suspend(r, at) ==
    /\ hpc' = [hpc EXCEPT ![r] = at]
    /\ UNCHANGED response

\* lines 63-72: the API-key check, and the upstream fetch it guards
CheckKeyAndFetch(r, loc) ==
    IF env.PIRATE_WEATHER_API_KEY \in {NULL, Some("")}
    THEN /\ local' = [local EXCEPT ![r] = [loc EXCEPT !.steps = @ \o <<"apiKey">>]]
         /\ Respond(r, JsonResponse(ErrorBody(<<"API key not configured">>), 500))
    ELSE /\ local' = [local EXCEPT ![r] =
                         [loc EXCEPT !.steps = @ \o <<"apiKey", "fetch">>]]
         /\ Suspend(r, "fetch")

\* what the awaited fetch settled with: a rejection, or a Response
Rejected == Some([threw |-> TRUE, status |-> 0])

Resolved(status) == Some([threw |-> FALSE, status |-> status])

\* a request arrives in a free slot
Receive(r, q) ==
    /\ hpc[r] \in {"idle", "done"}
    /\ request' = [request EXCEPT ![r] = q]
    /\ hpc' = [hpc EXCEPT ![r] = "received"]
    /\ local' = [local EXCEPT ![r] = NoLocal]
    /\ response' = [response EXCEPT ![r] = NULL]
    /\ UNCHANGED <<env, kv, weather, restVars>>

\* fetch(request, env) up to its first await: the router, and
\* handleForecast's lines 42-57
RouteOf_prefix(path) ==
    IF path \in {"/api/forecast", "/api/forecast/"} THEN "forecast"
    ELSE IF path = "/robots.txt" THEN "robots"
    ELSE "html"

RouteOf(path) ==
    IF path = "/api/forecast" THEN "forecast"
    ELSE IF path = "/robots.txt" THEN "robots"
    ELSE "html"

Route(r) ==
    /\ hpc[r] = "received"
    /\ LET lat == parseFloat(ParamOrEmpty(request[r].lat))
           lon == parseFloat(ParamOrEmpty(request[r].lon))
       IN  IF RouteOf(request[r].path) = "robots"
           THEN Respond(r, RobotsResponse) /\ UNCHANGED local
           ELSE IF RouteOf(request[r].path) = "html"
           THEN Respond(r, HtmlResponse) /\ UNCHANGED local
           ELSE IF lat = NULL \/ lon = NULL
           THEN /\ Respond(r, JsonResponse(
                       ErrorBody(<<"Missing or invalid lat/lon parameters">>), 400))
                /\ UNCHANGED local
           ELSE LET loc == [local[r] EXCEPT
                               !.cacheKey = CacheKeyOf(lat[1], lon[1])]
                IN  IF env.FORECAST_CACHE
                    THEN /\ local' = [local EXCEPT ![r] =
                                         [loc EXCEPT !.steps = @ \o <<"get">>]]
                         /\ Suspend(r, "get")
                    ELSE CheckKeyAndFetch(r, loc)
    /\ UNCHANGED <<env, kv, weather, request, restVars>>

\* CacheGet with the API key checked before the cached value is used
CacheGet_keyFirst(r) ==
    /\ hpc[r] = "get"
    /\ LET cached == KvGet(kv, local[r].cacheKey)
           checked == [local[r] EXCEPT !.steps = @ \o <<"apiKey">>]
       IN  IF env.PIRATE_WEATHER_API_KEY \in {NULL, Some("")}
           THEN /\ local' = [local EXCEPT ![r] = checked]
                /\ Respond(r, JsonResponse(
                       ErrorBody(<<"API key not configured">>), 500))
           ELSE IF cached # NULL
           THEN /\ local' = [local EXCEPT ![r] = checked]
                /\ Respond(r, JsonResponse([cached[1] EXCEPT !.cached = TRUE], 200))
           ELSE /\ local' = [local EXCEPT ![r] =
                                [checked EXCEPT !.steps = @ \o <<"fetch">>]]
                /\ Suspend(r, "fetch")
    /\ UNCHANGED <<env, kv, weather, request, restVars>>

\* FORECAST_CACHE.get resolves: lines 57-72
CacheGet(r) ==
    /\ hpc[r] = "get"
    /\ LET cached == KvGet(kv, local[r].cacheKey)
       IN  IF cached # NULL
           THEN /\ Respond(r, JsonResponse([cached[1] EXCEPT !.cached = TRUE], 200))
                /\ UNCHANGED local
           ELSE CheckKeyAndFetch(r, local[r])
    /\ UNCHANGED <<env, kv, weather, request, restVars>>

\* Fetch that caches the error body of a non-success status
Fetch_cacheFailure(r) ==
    /\ hpc[r] = "fetch"
    /\ \/ /\ local' = [local EXCEPT ![r] =
                          [local[r] EXCEPT !.apiResponse = Rejected]]
          /\ Respond(r, JsonResponse(
                 ErrorBody(<<"Failed to reach weather API">>), 502))
          /\ UNCHANGED kv
       \/ \E status \in FailureStatuses :
             /\ local' = [local EXCEPT ![r] =
                             [local[r] EXCEPT !.apiResponse = Resolved(status)]]
             /\ Respond(r, JsonResponse(
                    ErrorBody(<<"Weather API returned ", status>>), 502))
             /\ kv' = IF env.FORECAST_CACHE
                      THEN KvPut(kv, local[r].cacheKey,
                                 JSONStringify(ErrorBody(
                                     <<"Weather API returned ", status>>)),
                                 CACHE_TTL)
                      ELSE kv
       \/ \E body \in {NULL, Some(weather)} :
             /\ local' = [local EXCEPT ![r] =
                             [local[r] EXCEPT !.apiResponse = Resolved(200),
                                              !.body = body,
                                              !.steps = @ \o <<"json">>]]
             /\ Suspend(r, "json")
             /\ UNCHANGED kv
    /\ UNCHANGED <<env, weather, request, restVars>>

\* fetch(apiUrl) rejects, or resolves with a non-success or a success
\* status: lines 72-82
Fetch(r) ==
    /\ hpc[r] = "fetch"
    /\ \/ /\ local' = [local EXCEPT ![r] =
                          [local[r] EXCEPT !.apiResponse = Rejected]]
          /\ Respond(r, JsonResponse(
                 ErrorBody(<<"Failed to reach weather API">>), 502))
       \/ \E status \in FailureStatuses :
             /\ local' = [local EXCEPT ![r] =
                             [local[r] EXCEPT !.apiResponse = Resolved(status)]]
             /\ Respond(r, JsonResponse(
                    ErrorBody(<<"Weather API returned ", status>>), 502))
       \/ \E body \in {NULL, Some(weather)} :
             /\ local' = [local EXCEPT ![r] =
                             [local[r] EXCEPT !.apiResponse = Resolved(200),
                                              !.body = body,
                                              !.steps = @ \o <<"json">>]]
             /\ Suspend(r, "json")
    /\ UNCHANGED <<env, kv, weather, request, restVars>>

\* apiResponse.json() rejects on a body that is not JSON, or resolves:
\* lines 82-135
Json(r) ==
    /\ hpc[r] = "json"
    /\ IF local[r].body = NULL
       THEN Respond(r, Uncaught("SyntaxError")) /\ UNCHANGED local
       ELSE IF HasInvalidTime(local[r].body[1])
       THEN Respond(r, Uncaught("RangeError")) /\ UNCHANGED local
       ELSE LET body == local[r].body[1]
                computed == [local[r] EXCEPT
                                !.calls = ScoreDayCallsOf(body),
                                !.bestWindow = findBestWindow(DaysOfBody(body)),
                                !.result = Some(ForecastResultOf(body)),
                                !.steps = @ \o <<"compute">>]
            IN  IF env.FORECAST_CACHE
                THEN /\ local' = [local EXCEPT ![r] =
                                     [computed EXCEPT !.steps = @ \o <<"put">>]]
                     /\ Suspend(r, "put")
                ELSE /\ local' = [local EXCEPT ![r] = computed]
                     /\ Respond(r, JsonResponse(ForecastResultOf(body), 200))
    /\ UNCHANGED <<env, kv, weather, request, restVars>>

\* FORECAST_CACHE.put resolves: lines 135-138
Put(r) ==
    /\ hpc[r] = "put"
    /\ kv' = KvPut(kv, local[r].cacheKey, JSONStringify(local[r].result[1]), CACHE_TTL)
    /\ Respond(r, JsonResponse(local[r].result[1], 200))
    /\ UNCHANGED <<env, weather, request, local, restVars>>

\* an entry outlives its expirationTtl
Expire ==
    /\ \E e \in kv : kv' = kv \ {e}
    /\ UNCHANGED <<env, weather, request, hpc, local, response, restVars>>

\* the upstream's forecast is renewed
UpstreamChanges ==
    /\ \E body \in ServedBodies \ {weather} : weather' = body
    /\ UNCHANGED <<env, kv, request, hpc, local, response, restVars>>

\* Concurrent requests
InitHandler ==
    /\ CoreIdle
    /\ env \in Envs
    /\ kv = {}
    /\ weather \in ServedBodies
    /\ request = [r \in Slots |-> NoRequest]
    /\ hpc = [r \in Slots |-> "idle"]
    /\ local = [r \in Slots |-> NoLocal]
    /\ response = [r \in Slots |-> NULL]

NextHandler ==
    \/ \E r \in Slots : \E q \in ConcurrentRequests : Receive(r, q)
    \/ \E r \in Slots : Route(r)
    \/ \E r \in Slots : CacheGet(r)
    \/ \E r \in Slots : Fetch(r)
    \/ \E r \in Slots : Json(r)
    \/ \E r \in Slots : Put(r)
    \/ Expire
    \/ UpstreamChanges

SpecHandler == InitHandler /\ [][NextHandler]_vars

\* One request at a time, over every request and every upstream body
InitForecast ==
    /\ CoreIdle
    /\ env \in Envs
    /\ kv = {}
    /\ IsForecastBody(weather)
    /\ request = [r \in Slots |-> NoRequest]
    /\ hpc = [r \in Slots |-> "idle"]
    /\ local = [r \in Slots |-> NoLocal]
    /\ response = [r \in Slots |-> NULL]

NextForecast ==
    \/ \E q \in Requests : Receive(1, q)
    \/ Route(1)
    \/ CacheGet(1)
    \/ Fetch(1)
    \/ Json(1)
    \/ Put(1)
    \/ Expire

SpecForecast == InitForecast /\ [][NextForecast]_vars

----------------------------------------------------------------------------
(* Callers of the scoring module that share their arguments: each calls    *)
(* findBestWindow(days) and then generateRecommendation(days, bestWindow), *)
(* and the iterations of their loops interleave in every order.            *)

\* findBestWindow(days) is entered: lines 71-72
EnterFindBestWindow(c) ==
    /\ frames[c].pc = "idle"
    /\ frames' = [frames EXCEPT ![c].pc = "loop", ![c].i = 1]
    /\ UNCHANGED <<dayObjs, arrays, runs, restFrame>>

\* lines 84-90 and 95-100 on the heap: the end of the open run is set and
\* the run compared with the best so far; the new bestRun reference
ClosedEnd(run) == dayObjs[arrays[run.days][Len(arrays[run.days])]].date

BestAfterClose(f) ==
    IF f.currentRun # NULL /\ Replaces(RunAt(f.currentRun)[1], RunAt(f.bestRun))
    THEN f.currentRun
    ELSE f.bestRun

\* one iteration of the for loop: lines 74-92
Iterate(c) ==
    LET f == frames[c]
    IN  /\ f.pc = "loop"
        /\ f.i <= Len(arrays[f.daysArg])
        /\ LET d == arrays[f.daysArg][f.i]
               day == dayObjs[d]
           IN  IF Qualifies(day)
               THEN IF f.currentRun = NULL
                    THEN LET alloc == AllocRunDays(arrays, f.daysArg, d)
                         IN  /\ arrays' = alloc.heap
                             /\ runs' = Append(runs,
                                   [start |-> day.date, end |-> day.date,
                                    days |-> alloc.addr,
                                    totalScore |-> day.score])
                             /\ frames' = [frames EXCEPT
                                   ![c].currentRun = Some(Len(runs) + 1),
                                   ![c].i = @ + 1]
                    ELSE LET cur == f.currentRun[1]
                         IN  /\ arrays' = [arrays EXCEPT
                                   ![runs[cur].days] = Append(@, d)]
                             /\ runs' = [runs EXCEPT
                                   ![cur].totalScore = @ + day.score]
                             /\ frames' = [frames EXCEPT ![c].i = @ + 1]
               ELSE /\ runs' = IF f.currentRun = NULL THEN runs
                               ELSE [runs EXCEPT ![f.currentRun[1]].end =
                                        ClosedEnd(runs[f.currentRun[1]])]
                    /\ frames' = [frames EXCEPT
                          ![c].bestRun = BestAfterClose(f),
                          ![c].currentRun = NULL,
                          ![c].i = @ + 1]
                    /\ UNCHANGED arrays
        /\ UNCHANGED <<dayObjs, restFrame>>

\* the loop is over: the trailing run is closed and bestRun returned,
\* lines 94-103
ReturnBestRun(c) ==
    LET f == frames[c]
    IN  /\ f.pc = "loop"
        /\ f.i > Len(arrays[f.daysArg])
        /\ runs' = IF f.currentRun = NULL THEN runs
                   ELSE [runs EXCEPT ![f.currentRun[1]].end =
                            ClosedEnd(runs[f.currentRun[1]])]
        /\ frames' = [frames EXCEPT
              ![c].bestRun = BestAfterClose(f),
              ![c].currentRun = NULL,
              ![c].pc = "returned"]
        /\ UNCHANGED <<dayObjs, arrays, restFrame>>

\* generateRecommendation(days, bestWindow), which only reads its
\* arguments: lines 106-151
Recommend(c) ==
    /\ frames[c].pc = "returned"
    /\ frames' = [frames EXCEPT
          ![c].recommendation =
              generateRecommendation(DaysAt(frames[c].daysArg),
                                     RunAt(frames[c].bestRun)),
          ![c].pc = "recommended"]
    /\ UNCHANGED <<dayObjs, arrays, runs, restFrame>>

\* The heap holds up to MaxHeapDays days; the first array holds them all
\* and the second all but the first, sharing the ForecastDay objects.
\* Every caller passes one of the two.
InitCalls ==
    /\ low = 0
    /\ high = 0
    /\ dayScore = NoScore
    /\ inDays = <<>>
    /\ window = NULL
    /\ rec = NoRec
    /\ SeasonIdle
    /\ HandlerIdle
    /\ pc = "calls"
    /\ \E n \in 0..MaxHeapDays : \E t \in [1..n -> HeapLows \X HeapHighs] :
          /\ dayObjs = DaysOf(t)
          /\ arrays = <<[k \in 1..n |-> k], [k \in 1..(n - 1) |-> k + 1]>>
    /\ runs = <<>>
    /\ \E args \in [Calls -> {1, 2}] :
          frames = [c \in Calls |-> [IdleFrame EXCEPT !.daysArg = args[c]]]

NextCalls ==
    \/ \E c \in Calls : EnterFindBestWindow(c)
    \/ \E c \in Calls : Iterate(c)
    \/ \E c \in Calls : ReturnBestRun(c)
    \/ \E c \in Calls : Recommend(c)

SpecCalls == InitCalls /\ [][NextCalls]_vars

----------------------------------------------------------------------------
(* Vocabulary of the properties *)

Returned == pc \in {"done", "doneWith"}

Found == pc \in {"found", "done"}

\* days[i..j] is a run of consecutive days with score >= 2
IsRun(days, i, j) ==
    /\ 1 <= i /\ i <= j /\ j <= Len(days)
    /\ \A k \in i..j : days[k].score >= 2

RunTotal(days, i, j) == SumScores(SubSeq(days, i, j))

\* the message contains the pieces, consecutively
Mentions(message, pieces) ==
    \E k \in 0..(Len(message) - Len(pieces)) :
        \A n \in 1..Len(pieces) : message[k + n] = pieces[n]

NoWindowGiven == window = NULL \/ Len(window[1].days) = 0

\* the poor-rated days that may stand on the i-th date
PoorDaysAt(i) ==
    {d \in {ForecastDayOf(DateAt(i), p[2], p[1]) : p \in Lows \X Highs} :
        d.rating = "poor"}

----------------------------------------------------------------------------
\* C1: for every temperature pair, scoreDay returns (poor, 0) when
\* low >= 0 or high <= 2; otherwise (excellent, 3) iff low is in [-7, -2]
\* and high is in [4, 10], (good, 2) iff exactly one of the two ranges
\* holds, (fair, 1) iff neither holds; it never returns unknown.
C1_ScoreDayContract ==
    pc = "scored" =>
        LET gate == low >= 0 \/ high <= 2
            lowIn == -7 <= low /\ low <= -2
            highIn == 4 <= high /\ high <= 10
        IN  /\ dayScore.rating # "unknown"
            /\ gate => dayScore = [rating |-> "poor", score |-> 0]
            /\ ~gate =>
                /\ dayScore = [rating |-> "excellent", score |-> 3]
                      <=> (lowIn /\ highIn)
                /\ dayScore = [rating |-> "good", score |-> 2]
                      <=> (lowIn # highIn)
                /\ dayScore = [rating |-> "fair", score |-> 1]
                      <=> (~lowIn /\ ~highIn)

C1_Witness ==
    /\ pc = "scored"
    /\ low = -7
    /\ high = 10
    /\ dayScore = [rating |-> "excellent", score |-> 3]

\* C2: the window findBestWindow returns is at least as long as every run
\* of consecutive days with score >= 2, a run reaching the last day
\* included, whatever the totals of the runs are.
C2_LongestRunWins ==
    Found =>
        \A i, j \in 1..Len(inDays) :
            IsRun(inDays, i, j) =>
                window # NULL /\ Len(window[1].days) >= j - i + 1

\* a shorter run with a strictly higher total score lost to the window
C2_Witness ==
    /\ pc = "found"
    /\ window # NULL
    /\ \E i, j \in 1..Len(inDays) :
          /\ IsRun(inDays, i, j)
          /\ j - i + 1 < Len(window[1].days)
          /\ RunTotal(inDays, i, j) > window[1].totalScore

\* C3: no run of the same length as the returned window has a strictly
\* greater total score.
C3_HighestTotalAmongLongest ==
    (Found /\ window # NULL) =>
        \A i, j \in 1..Len(inDays) :
            (IsRun(inDays, i, j) /\ j - i + 1 = Len(window[1].days)) =>
                RunTotal(inDays, i, j) <= window[1].totalScore

\* an earlier run of the window's length and a lower total was replaced
C3_Witness ==
    /\ pc = "found"
    /\ window # NULL
    /\ Len(window[1].days) >= 2
    /\ \E i, j \in 1..Len(inDays) :
          /\ IsRun(inDays, i, j)
          /\ j - i + 1 = Len(window[1].days)
          /\ inDays[j].date # window[1].end
          /\ RunTotal(inDays, i, j) < window[1].totalScore

\* C4: findBestWindow returns null iff no day has score >= 2; a sequence
\* with exactly one such day yields the single-day window on that day.
C4_NullIffNoQualifyingDay ==
    Found =>
        LET good == {k \in 1..Len(inDays) : inDays[k].score >= 2}
        IN  /\ window = NULL <=> good = {}
            /\ \A k \in good :
                  good = {k} =>
                      window = Some([start |-> inDays[k].date,
                                     end |-> inDays[k].date,
                                     days |-> <<inDays[k]>>,
                                     totalScore |-> inDays[k].score])

\* the only qualifying day is the last of several days
C4_Witness ==
    /\ pc = "found"
    /\ Len(inDays) >= 2
    /\ {k \in 1..Len(inDays) : inDays[k].score >= 2} = {Len(inDays)}
    /\ window # NULL

\* C5: for every day sequence and every window with exactly one day,
\* generateRecommendation returns no_window with a message that mentions
\* the 1-day window and says "today" when the window starts on the first
\* day's date and "coming <formatted start date>" otherwise.
C5_SingleDayIsNoWindow ==
    (Returned /\ window # NULL /\ Len(window[1].days) = 1) =>
        /\ rec.type = "no_window"
        /\ Mentions(rec.message, <<"Only a brief 1-day window ">>)
        /\ IF Len(inDays) > 0 /\ window[1].start = inDays[1].date
           THEN Mentions(rec.message, <<"today">>)
           ELSE Mentions(rec.message,
                         <<"coming ">> \o formatDate(window[1].start))

\* C6: for a non-empty day sequence and a window of at least two days,
\* generateRecommendation returns tap_now if the window starts on the
\* first day's date and upcoming otherwise.
C6_TapNowOrUpcoming ==
    (Returned /\ Len(inDays) > 0 /\ window # NULL /\ Len(window[1].days) >= 2) =>
        rec.type = IF window[1].start = inDays[1].date
                   THEN "tap_now" ELSE "upcoming"

C6_Witness ==
    /\ pc = "done"
    /\ window # NULL
    /\ Len(window[1].days) >= 2
    /\ window[1].start # inDays[1].date
    /\ rec.type = "upcoming"

\* C7 as stated: with no window, season_over if every day whose low is
\* known has low > 0, otherwise too_cold if every day whose high is known
\* has high <= 2, otherwise no_window; a missing temperature is not
\* counted against either check.
C7_MissingNotCounted ==
    (Returned /\ NoWindowGiven) =>
        rec.type =
            IF \A i \in 1..Len(inDays) :
                  inDays[i].tempLow # NULL => inDays[i].tempLow[1] > 0
            THEN "season_over"
            ELSE IF \A i \in 1..Len(inDays) :
                  inDays[i].tempHigh # NULL => inDays[i].tempHigh[1] <= 2
            THEN "too_cold"
            ELSE "no_window"

\* C7 as amended: with no window, season_over if every day has a known low
\* and it is > 0, otherwise too_cold if every day has a known high and it
\* is <= 2, otherwise no_window; a day whose low is missing rules out
\* season_over and a day whose high is missing rules out too_cold.
C7_MissingCounted ==
    (Returned /\ NoWindowGiven) =>
        rec.type =
            IF \A i \in 1..Len(inDays) :
                  inDays[i].tempLow # NULL /\ inDays[i].tempLow[1] > 0
            THEN "season_over"
            ELSE IF \A i \in 1..Len(inDays) :
                  inDays[i].tempHigh # NULL /\ inDays[i].tempHigh[1] <= 2
            THEN "too_cold"
            ELSE "no_window"

\* every known low is above freezing, one low is missing, and the
\* recommendation is not season_over
C7_Witness ==
    /\ pc = "done"
    /\ window = NULL
    /\ \E i \in 1..Len(inDays) : inDays[i].tempLow = NULL
    /\ \E i \in 1..Len(inDays) : inDays[i].tempLow # NULL
    /\ \A i \in 1..Len(inDays) :
          inDays[i].tempLow # NULL => inDays[i].tempLow[1] > 0
    /\ rec.type = "no_window"

\* C8: for the empty day sequence findBestWindow returns null and
\* generateRecommendation([], null) returns season_over.
C8_EmptySequence ==
    inDays = <<>> =>
        /\ Found => window = NULL
        /\ (Returned /\ window = NULL) => rec.type = "season_over"

C8_Witness ==
    /\ inDays = <<>>
    /\ pc = "done"
    /\ window = NULL
    /\ rec.type = "season_over"

\* C9: for every day sequence, empty or not, and every window argument,
\* null or with one or more days, generateRecommendation returns a
\* Recommendation of one of the five types and never throws.
C9_Total ==
    (Returned /\ (window = NULL \/ Len(window[1].days) >= 1)) =>
        rec.type \in {"tap_now", "upcoming", "no_window", "season_over", "too_cold"}

\* C10 as stated: replacing a day of rating unknown by any poor-rated day
\* changes neither the window findBestWindow returns nor the type
\* generateRecommendation returns.
C10_UnknownLikePoor ==
    pc = "done" =>
        \A i \in 1..Len(inDays) :
            inDays[i].rating = "unknown" =>
                \A p \in PoorDaysAt(i) :
                    LET days2 == [inDays EXCEPT ![i] = p]
                        w2 == findBestWindow(days2)
                    IN  /\ w2 = window
                        /\ generateRecommendation(days2, w2).type = rec.type

\* C10 as amended: replacing a day of rating unknown by any poor-rated day
\* of the same date does not change the window findBestWindow returns,
\* and does not change the recommendation type when that window is not
\* null.
C10_UnknownLikePoorInWindows ==
    pc = "done" =>
        \A i \in 1..Len(inDays) :
            inDays[i].rating = "unknown" =>
                \A p \in PoorDaysAt(i) :
                    LET days2 == [inDays EXCEPT ![i] = p]
                        w2 == findBestWindow(days2)
                    IN  /\ w2 = window
                        /\ window # NULL =>
                              generateRecommendation(days2, w2).type = rec.type

\* an unknown day next to a window of two days
C10_Witness ==
    /\ pc = "done"
    /\ window # NULL
    /\ Len(window[1].days) >= 2
    /\ \E i \in 1..Len(inDays) : inDays[i].rating = "unknown"

----------------------------------------------------------------------------
\* C11: for every window with len >= 2 days, the quality word of the
\* tap_now message is "excellent" iff totalScore / len >= 2.5, that is
\* 2 * totalScore >= 5 * len, and "good" otherwise.
C11_QualityWord ==
    (Returned /\ rec.type = "tap_now") =>
        /\ Len(window[1].days) >= 2
        /\ rec.message[1] = "Tap now - "
        /\ IF 2 * window[1].totalScore >= 5 * Len(window[1].days)
           THEN rec.message[2] = "excellent"
           ELSE rec.message[2] = "good"

\* a two-day window scoring 2 + 3 is excellent
C11_Witness ==
    /\ Returned
    /\ rec.type = "tap_now"
    /\ Len(window[1].days) = 2
    /\ window[1].totalScore = 5
    /\ rec.message[2] = "excellent"

\* C20: for windows with len >= 2 a tap_now message ends with the "Great
\* stretch" remark iff len >= 3, an upcoming message starts with "Great
\* window" iff len >= 3 and with "Good window" iff len = 2, and both
\* messages state the day count len.
C20_EmphaticWording ==
    LET len == Len(window[1].days)
        msg == rec.message
        count == <<ToString(len), " days">>
    IN  /\ (Returned /\ rec.type = "tap_now") =>
              /\ len >= 2
              /\ msg[Len(msg)] = " Great stretch for strong sap flow." <=> len >= 3
              /\ Mentions(msg, <<" conditions for the next ", ToString(len), " days.">>)
        /\ (Returned /\ rec.type = "upcoming") =>
              /\ len >= 2
              /\ (msg[1] = "Great" /\ msg[2] = " window coming ") <=> len >= 3
              /\ (msg[1] = "Good" /\ msg[2] = " window coming ") <=> len = 2
              /\ Mentions(msg, <<" - ", ToString(len), " days of favorable conditions.">>)

\* an upcoming window of three days, announced as a great window
C20_Witness ==
    /\ pc = "done"
    /\ rec.type = "upcoming"
    /\ Len(window[1].days) = 3
    /\ rec.message[1] = "Great"

\* the binary64 latitude of the argument n / LatDen
Lat(n) == Binary64Of(n, LatDen)

----------------------------------------------------------------------------
\* the latitude as getSeasonInfo is said to normalise it: clamp(|lat|, 39, 49)
ClampedAbs(lat) ==
    LET a == IF lat < 0 THEN 0 - lat ELSE lat
    IN  IF a < 39 * LatDen THEN 39 * LatDen
        ELSE IF a > 49 * LatDen THEN 49 * LatDen ELSE a

\* C12: getSeasonInfo(latitude, year) equals getSeasonInfo(clamp(|latitude|,
\* 39, 49), year): a negative latitude gives the dates of its absolute
\* value, |latitude| <= 39 the latitude-39 dates and |latitude| >= 49 the
\* latitude-49 dates.
C12_ClampAndSymmetry ==
    pc = "seasoned" =>
        /\ seasonInfo = getSeasonInfo(Lat(ClampedAbs(argLatitude)), argYear)
        /\ seasonInfo = getSeasonInfo(Lat(0 - argLatitude), argYear)
        /\ (argLatitude <= 39 * LatDen /\ argLatitude >= 0 - 39 * LatDen) =>
              seasonInfo = getSeasonInfo(Whole(39), argYear)
        /\ (argLatitude >= 49 * LatDen \/ argLatitude <= 0 - 49 * LatDen) =>
              seasonInfo = getSeasonInfo(Whole(49), argYear)

\* a southern latitude strictly inside the table's range
C12_Witness ==
    /\ pc = "seasoned"
    /\ argLatitude = 0 - 45 * LatDen
    /\ seasonInfo = getSeasonInfo(Whole(45), argYear)
    /\ seasonInfo # getSeasonInfo(Whole(39), argYear)

\* the table of the claim
RefTable ==
    << <<39, 45, 59>>, <<43, 65, 79>>, <<45, 76, 90>>,
       <<47, 94, 108>>, <<49, 104, 118>> >>

\* the exact value at the binary64 latitude lat of the line through
\* (lat1, v1) and (lat2, v2), no step of it rounded: lat has at most 47
\* fractional bits from 32 up, the spans of the table are 2 and 4, and so
\* the value has at most 49
LineAt(lat, lat1, v1, lat2, v2) ==
    LET k == lat2 - lat1
        rise == Normalize((lat.w - lat1) * (v2 - v1), lat.h * (v2 - v1),
                          lat.l * (v2 - v1))
        hNum == (rise.w % k) * HiUnit + rise.h
        lNum == (hNum % k) * LoUnit + rise.l
    IN  Normalize(v1 + (rise.w \div k), hNum \div k, lNum \div k)

\* n is the non-negative number x rounded to the nearest integer, a half
\* rounded up
IsRoundHalfUp(n, x) ==
    \/ n = x.w /\ 2 * x.h < HiUnit
    \/ n = x.w + 1 /\ 2 * x.h >= HiUnit

\* n is the value at the decimal latitude lat / LatDen of the line through
\* (lat1, v1) and (lat2, v2), rounded to the nearest integer, a half
\* rounded up
IsRoundHalfUpAtDecimal(n, lat, lat1, v1, lat2, v2) ==
    LET num == v1 * (lat2 - lat1) * LatDen + (lat - lat1 * LatDen) * (v2 - v1)
        den == (lat2 - lat1) * LatDen
    IN  2 * den * n <= 2 * num + den /\ 2 * num + den < 2 * den * (n + 1)

\* the latitude argument lies in [lat1, lat2]
LatitudeWithin(lat1, lat2) ==
    lat1 * LatDen <= argLatitude /\ argLatitude <= lat2 * LatDen

\* both day-of-year locals are the rounded interpolation between the
\* reference points i and i + 1, the latitude being taken either as the
\* binary64 argument or as the decimal it was written as
InterpolatedBetween(i) ==
    LET lo == RefTable[i]
        up == RefTable[i + 1]
    IN  \/ /\ IsRoundHalfUp(seasonDoys.tapByDoy,
                            LineAt(Lat(argLatitude), lo[1], lo[2], up[1], up[2]))
           /\ IsRoundHalfUp(seasonDoys.seasonEndDoy,
                            LineAt(Lat(argLatitude), lo[1], lo[3], up[1], up[3]))
        \/ /\ IsRoundHalfUpAtDecimal(seasonDoys.tapByDoy, argLatitude,
                                     lo[1], lo[2], up[1], up[2])
           /\ IsRoundHalfUpAtDecimal(seasonDoys.seasonEndDoy, argLatitude,
                                     lo[1], lo[3], up[1], up[3])

\* C13: for every latitude in [39, 49] the tap-by and season-end
\* day-of-year equal the round-half-up of the linear interpolation between
\* the two consecutive reference points that bracket the latitude; at the
\* five reference latitudes they are the table entry, latitude 41 gives
\* (55, 69) and latitude 44 gives (71, 85).
C13_Interpolation ==
    (pc = "seasoned" /\ LatitudeWithin(39, 49)) =>
        /\ \E i \in 1..4 : LatitudeWithin(RefTable[i][1], RefTable[i + 1][1])
        /\ \A i \in 1..4 :
              LatitudeWithin(RefTable[i][1], RefTable[i + 1][1]) =>
                  InterpolatedBetween(i)
        /\ \A i \in 1..5 :
              argLatitude = RefTable[i][1] * LatDen =>
                  seasonDoys = [tapByDoy |-> RefTable[i][2],
                                seasonEndDoy |-> RefTable[i][3]]
        /\ argLatitude = 41 * LatDen =>
              seasonDoys = [tapByDoy |-> 55, seasonEndDoy |-> 69]
        /\ argLatitude = 44 * LatDen =>
              seasonDoys = [tapByDoy |-> 71, seasonEndDoy |-> 85]

\* C29: for every latitude the season-end day-of-year is exactly 14 days
\* after the tap-by day-of-year and the tap-by day-of-year lies between 45
\* and 104 inclusive: at the reference points, at clamped latitudes and at
\* every interpolated latitude after rounding.
C29_FourteenDaysApart ==
    pc = "seasoned" =>
        /\ seasonDoys.seasonEndDoy = seasonDoys.tapByDoy + 14
        /\ seasonDoys.tapByDoy >= 45
        /\ seasonDoys.tapByDoy <= 104

\* C30: doyToDate is a function of (doy, year) alone: a call returns the
\* ISO date that the same arguments return on a host of any other UTC
\* offset.
C30_SameDateOnEveryHost ==
    pc = "dated" =>
        \A tz \in TzOffsets :
            isoDate = UtcDateOfLocalMidnight(LocalDate(argYear, 1, argDoy), tz)

\* the lengths of the months of a year
MonthLengths(leap) ==
    <<31, IF leap THEN 29 ELSE 28, 31, 30, 31, 30, 31, 31, 30, 31, 30, 31>>

RECURSIVE DaysBefore(_, _)
DaysBefore(lengths, m) ==
    IF m <= 1 THEN 0 ELSE lengths[m - 1] + DaysBefore(lengths, m - 1)

\* date is the d-th day of the year y, counted from January 1
IsNthDay(date, y, d, leap) ==
    /\ date[1] = y
    /\ date[2] \in 1..12
    /\ date[3] \in 1..MonthLengths(leap)[date[2]]
    /\ DaysBefore(MonthLengths(leap), date[2]) + date[3] = d

\* C14: for every year Y and every day-of-year d from 1 to the number of
\* days in Y, doyToDate(d, Y) is the ISO date of the d-th day of Y: 1 gives
\* Y-01-01, 59 gives Y-02-28, 60 gives Y-02-29 in a leap year and Y-03-01
\* otherwise, 365 gives Y-12-31 in a non-leap year.
C14_DoyToDate ==
    LET leap == (argYear % 4 = 0 /\ argYear % 100 # 0) \/ argYear % 400 = 0
    IN  (pc = "dated" /\ argDoy <= (IF leap THEN 366 ELSE 365)) =>
            /\ IsNthDay(isoDate, argYear, argDoy, leap)
            /\ argDoy = 1 => isoDate = <<argYear, 1, 1>>
            /\ argDoy = 59 => isoDate = <<argYear, 2, 28>>
            /\ argDoy = 60 =>
                  isoDate = IF leap THEN <<argYear, 2, 29>> ELSE <<argYear, 3, 1>>
            /\ (argDoy = 365 /\ ~leap) => isoDate = <<argYear, 12, 31>>

----------------------------------------------------------------------------
(* Vocabulary of the Worker's properties *)

Answered(r) == hpc[r] = "done"

ForecastRequest(r) == request[r].path = "/api/forecast"

Did(r, step) == \E i \in 1..Len(local[r].steps) : local[r].steps[i] = step

\* the string begins with a decimal literal: an optional sign, then a
\* digit, or a point and a digit
StartsNumber(str) ==
    LET digits == IF str # <<>> /\ str[1] \in {"-", "+"} THEN Tail(str) ELSE str
    IN  /\ digits # <<>>
        /\ \/ IsDigit(digits[1])
           \/ Len(digits) >= 2 /\ digits[1] = "." /\ IsDigit(digits[2])

\* the parameter is present and reads as a number
IsCoordinate(param) == param # NULL /\ StartsNumber(param[1])

ValidCoordinates(r) ==
    IsCoordinate(request[r].lat) /\ IsCoordinate(request[r].lon)

KeyConfigured == env.PIRATE_WEATHER_API_KEY \notin {NULL, Some("")}

IsErrorResponse(resp, status) ==
    /\ resp.status = status
    /\ resp.contentType = "application/json"
    /\ DOMAIN resp.body = {"error"}

ResultFields ==
    {"current", "today", "days", "bestWindow", "recommendation", "cached"}

IsResultResponse(resp) ==
    /\ resp.status = 200
    /\ resp.contentType = "application/json"
    /\ DOMAIN resp.body = ResultFields

UpstreamFailed(r) ==
    /\ local[r].apiResponse # NULL
    /\ \/ local[r].apiResponse[1].threw
       \/ local[r].apiResponse[1].status \notin 200..299

\* C15: every answered request to /api/forecast has status 400 and an
\* {error} body when lat or lon is missing or not a number; otherwise
\* status 500 and an {error} body when the API key is not configured;
\* otherwise status 502 and an {error} body when the upstream fetch threw
\* or returned a non-success status; and the bundled JSON result
\* otherwise.
C15_ForecastAnswers ==
    \A r \in Slots :
        (Answered(r) /\ ForecastRequest(r)) =>
            LET resp == response[r][1]
            IN  IF ~ValidCoordinates(r) THEN IsErrorResponse(resp, 400)
                ELSE IF ~KeyConfigured THEN IsErrorResponse(resp, 500)
                ELSE IF UpstreamFailed(r) THEN IsErrorResponse(resp, 502)
                ELSE IsResultResponse(resp)

\* the whole number of tenths nearest to x hundredths, a tie going up
IsNearestTenth(k, x) == 10 * k - 5 <= x /\ x < 10 * k + 5

\* key is `forecast:<lat>:<lon>` of the request's coordinates, each
\* rounded to one decimal
IsRoundedKey(key, r) ==
    /\ Len(key) = 4
    /\ key[1] = "forecast:" /\ key[3] = ":"
    /\ IsNearestTenth(key[2], parseFloat(request[r].lat[1])[1])
    /\ IsNearestTenth(key[4], parseFloat(request[r].lon[1])[1])

StoredUnder(entries, key) == {e \in entries : e.key = key}

\* C16: the cache key is `forecast:` with lat and lon each rounded to one
\* decimal.  When the lookup of a request finds an entry under its key,
\* the request is answered at once with that entry and cached: true,
\* having fetched and computed nothing; when it finds none, the handler
\* goes on to the upstream, and the result it computes from the upstream
\* body is stored under the key with an expiry of 10800 s and returned
\* with cached: false.
C16_CacheProtocol ==
    [][\A r \in Slots :
          /\ (hpc[r] = "received" /\ hpc'[r] = "get") =>
                IsRoundedKey(local'[r].cacheKey, r)
          /\ (hpc[r] = "get" /\ hpc'[r] # "get") =>
                IF StoredUnder(kv, local[r].cacheKey) # {}
                THEN /\ \E e \in StoredUnder(kv, local[r].cacheKey) :
                          response'[r] = Some(JsonResponse(
                              [JSONParse(e.value) EXCEPT !.cached = TRUE], 200))
                     /\ hpc'[r] = "done"
                     /\ local'[r] = local[r]
                     /\ ~Did(r, "fetch") /\ ~Did(r, "compute")
                ELSE \/ hpc'[r] = "fetch"
                     \/ hpc'[r] = "done" /\ IsErrorResponse(response'[r][1], 500)
          /\ (hpc[r] = "put" /\ hpc'[r] # "put") =>
                LET result == ForecastResultOf(local[r].body[1])
                IN  /\ IsRoundedKey(local[r].cacheKey, r)
                    /\ Did(r, "fetch")
                    /\ result.cached = FALSE
                    /\ response'[r] = Some(JsonResponse(result, 200))
                    /\ StoredUnder(kv', local[r].cacheKey) =
                          {[key |-> local[r].cacheKey,
                            value |-> JSONStringify(result),
                            expirationTtl |-> 10800]}]_vars

\* one request has stored its result and been answered with cached:
\* false, and a request with other coordinates that round to the same
\* key has been answered from the cache
C16_Witness ==
    \E r1, r2 \in Slots :
        /\ Answered(r1) /\ Answered(r2)
        /\ request[r1] # request[r2]
        /\ local[r1].cacheKey = local[r2].cacheKey
        /\ IsResultResponse(response[r1][1])
        /\ ~response[r1][1].body.cached
        /\ Did(r1, "put")
        /\ IsResultResponse(response[r2][1])
        /\ response[r2][1].body.cached
        /\ ~Did(r2, "fetch")
        /\ StoredUnder(kv, local[r2].cacheKey) # {}

\* the (rating, score) pairs of the Rating-to-Score mapping
RatingScores ==
    {<<"excellent", 3>>, <<"good", 2>>, <<"fair", 1>>, <<"poor", 0>>,
     <<"unknown", 0>>}

\* the upstream entry gives a high (low) temperature under either name
GivesHigh(d) == d.temperatureHigh # NULL \/ d.temperatureMax # NULL

GivesLow(d) == d.temperatureLow # NULL \/ d.temperatureMin # NULL

HighGiven(d) ==
    IF d.temperatureHigh # NULL THEN d.temperatureHigh[1] ELSE d.temperatureMax[1]

LowGiven(d) ==
    IF d.temperatureLow # NULL THEN d.temperatureLow[1] ELSE d.temperatureMin[1]

Computed(r) == local[r].result # NULL

\* C17: every ForecastDay the handler builds carries a (rating, score)
\* pair of the mapping excellent:3, good:2, fair:1, poor:0, unknown:0; the
\* pair is (unknown, 0), with no call of scoreDay, iff the entry's high or
\* low temperature is absent, and is scoreDay(low, high) otherwise.
C17_DayPairs ==
    \A r \in Slots :
        Computed(r) =>
            LET days == local[r].result[1].days
                data == DailyDataOf(local[r].body[1])
                calls == local[r].calls
            IN  /\ Len(days) = Len(data)
                /\ Len(calls) = Len(data)
                /\ \A i \in 1..Len(data) :
                      LET absent == ~GivesHigh(data[i]) \/ ~GivesLow(data[i])
                      IN  /\ <<days[i].rating, days[i].score>> \in RatingScores
                          /\ absent <=>
                                /\ days[i].rating = "unknown"
                                /\ days[i].score = 0
                                /\ calls[i] = NULL
                          /\ ~absent =>
                                /\ calls[i] = Some(<<LowGiven(data[i]),
                                                     HighGiven(data[i])>>)
                                /\ [rating |-> days[i].rating,
                                    score |-> days[i].score]
                                      = scoreDay(LowGiven(data[i]),
                                                 HighGiven(data[i]))

\* a result with a day left unknown for want of a high temperature, a
\* day scored from temperatureMax / temperatureMin, and a day scored
\* with a low of 0
C17_Witness ==
    \E r \in Slots :
        /\ Computed(r)
        /\ Answered(r)
        /\ LET days == local[r].result[1].days
               data == DailyDataOf(local[r].body[1])
           IN  /\ Len(days) = 3
               /\ \E i \in 1..3 :
                     ~GivesHigh(data[i]) /\ days[i].rating = "unknown"
               /\ \E i \in 1..3 :
                     /\ data[i].temperatureHigh = NULL
                     /\ GivesHigh(data[i])
                     /\ days[i].rating = "good"
               /\ \E i \in 1..3 :
                     /\ data[i].temperatureLow = Some(0)
                     /\ days[i].rating = "poor"
                     /\ local[r].calls[i] = Some(<<0, 6>>)

\* the request was answered with a ForecastResult
Succeeded(r) == Answered(r) /\ IsResultResponse(response[r][1])

\* C18: in every successful result, computed or served from the cache,
\* bestWindow is null iff findBestWindow returned null for the result's
\* days, and otherwise carries the
\* window's start as startDate, its end as endDate, the number of its days
\* as length and totalScore / length as avgScore; today is the first day
\* of the day sequence, or null when the sequence is empty.
C18_ResultSummary ==
    \A r \in Slots :
        Succeeded(r) =>
            LET result == response[r][1].body
                found == findBestWindow(result.days)
            IN  /\ Computed(r) =>
                      /\ result.days = DaysOfBody(local[r].body[1])
                      /\ local[r].bestWindow = found
                /\ result.bestWindow = NULL <=> found = NULL
                /\ found # NULL =>
                      LET summary == result.bestWindow[1]
                      IN  /\ summary.startDate = found[1].start
                          /\ summary.endDate = found[1].end
                          /\ summary.length = Len(found[1].days)
                          /\ summary.avgScore[2] > 0
                          /\ summary.avgScore[1] * summary.length
                                = found[1].totalScore * summary.avgScore[2]
                /\ result.today =
                      IF Len(result.days) = 0 THEN NULL ELSE Some(result.days[1])

\* a result whose window is an excellent and a good day, of average 5/2
C18_Witness ==
    \E r \in Slots :
        /\ Succeeded(r) /\ Computed(r)
        /\ response[r][1].body.bestWindow # NULL
        /\ response[r][1].body.bestWindow[1].length = 2
        /\ response[r][1].body.bestWindow[1].avgScore = <<5, 2>>
        /\ response[r][1].body.bestWindow[1].startDate = FirstDate
        /\ response[r][1].body.today # NULL

\* the response is the front-end document getHTML() returns
IsHtmlDocument(resp) ==
    /\ resp.status = 200
    /\ resp.contentType = "text/html;charset=UTF-8"
    /\ DOMAIN resp.body = {"html"}

\* the response is the plain-text robots file
IsRobotsFile(resp) ==
    /\ resp.status = 200
    /\ resp.contentType = "text/plain"
    /\ DOMAIN resp.body = {"text"}

----------------------------------------------------------------------------
\* C21: every window findBestWindow returns has at least one day; every
\* member day has score >= 2; its days are a contiguous slice of the
\* input sequence, in input order; totalScore is the sum of the member
\* scores; start is the date of its first member and end the date of its
\* last member.
C21_WindowShape ==
    (Found /\ window # NULL) =>
        LET w == window[1]
            n == Len(w.days)
        IN  /\ n >= 1
            /\ \A k \in 1..n : w.days[k].score >= 2
            /\ \E i \in 1..Len(inDays) :
                  /\ i + n - 1 <= Len(inDays)
                  /\ w.days = SubSeq(inDays, i, i + n - 1)
            /\ w.totalScore = SumScores(w.days)
            /\ w.start = w.days[1].date
            /\ w.end = w.days[n].date

\* a window of an excellent and a good day in the middle of the input
C21_Witness ==
    /\ Found /\ window # NULL
    /\ Len(window[1].days) = 2
    /\ window[1].totalScore = 5
    /\ window[1].start # window[1].end
    /\ window[1].days[1] = inDays[2]
    /\ Len(inDays) >= 4

\* the window is the slice of the input that starts at its i-th day
StartsAt(w, days, i) ==
    /\ i + Len(w.days) - 1 <= Len(days)
    /\ w.days = SubSeq(days, i, i + Len(w.days) - 1)

\* C22: the window findBestWindow returns is a maximal run: the input day
\* just before its first member, if any, and the input day just after its
\* last member, if any, have score < 2, and no day with score < 2 is a
\* member.
C22_MaximalRun ==
    (Found /\ window # NULL) =>
        /\ \A k \in 1..Len(window[1].days) : ~(window[1].days[k].score < 2)
        /\ \E i \in 1..Len(inDays) : StartsAt(window[1], inDays, i)
        /\ \A i \in 1..Len(inDays) :
              StartsAt(window[1], inDays, i) =>
                  LET j == i + Len(window[1].days)
                  IN  /\ i > 1 => inDays[i - 1].score < 2
                      /\ j <= Len(inDays) => inDays[j].score < 2

\* a window with an input day on either side of it
C22_Witness ==
    /\ Found /\ window # NULL
    /\ Len(window[1].days) >= 2
    /\ \E i \in 2..Len(inDays) :
          /\ StartsAt(window[1], inDays, i)
          /\ i + Len(window[1].days) <= Len(inDays)

----------------------------------------------------------------------------
\* the arrays passed as the days argument of some call
ArgumentArrays == {frames[c].daysArg : c \in Calls}

\* what the call c has just returned is what the function gives for the
\* arguments it was called with
ResultByArguments(c) ==
    /\ frames[c].pc = "returned" =>
          RunAt(frames[c].bestRun) = findBestWindow(DaysAt(frames[c].daysArg))
    /\ frames[c].pc = "recommended" =>
          frames[c].recommendation =
              generateRecommendation(DaysAt(frames[c].daysArg),
                                     RunAt(frames[c].bestRun))

\* the runs the call c holds, as values
RunsHeld(c) == <<RunAt(frames[c].bestRun), RunAt(frames[c].currentRun)>>

\* C23: findBestWindow and generateRecommendation keep no state between
\* calls and do not modify their arguments: in every interleaving of the
\* calls, no step changes an array passed as days or a ForecastDay, the
\* call of generateRecommendation changes no object at all, a step of one
\* call changes nothing another call holds, and what each call returns is
\* determined by that call's own arguments.
C23_NoSharedState ==
    [][/\ dayObjs' = dayObjs
       /\ \A a \in ArgumentArrays : arrays'[a] = arrays[a]
       /\ \A c \in Calls :
             (frames[c].pc = "returned" /\ frames'[c].pc = "recommended") =>
                 /\ arrays' = arrays
                 /\ runs' = runs
       /\ \A c \in Calls :
             IF frames'[c] = frames[c]
             THEN RunsHeld(c)' = RunsHeld(c)
             ELSE ResultByArguments(c)']_vars

\* two calls share one days array: one has returned a window of several
\* days and its recommendation, the other is inside its loop with a run
\* of its own open
C23_Witness ==
    \E c1, c2 \in Calls :
        /\ c1 # c2
        /\ frames[c1].daysArg = frames[c2].daysArg
        /\ frames[c1].pc = "recommended"
        /\ frames[c1].bestRun # NULL
        /\ Len(arrays[runs[frames[c1].bestRun[1]].days]) >= 2
        /\ frames[c2].pc = "loop"
        /\ frames[c2].currentRun # NULL
        /\ frames[c2].currentRun # frames[c1].bestRun
        /\ runs[frames[c2].currentRun[1]].days
              # runs[frames[c1].bestRun[1]].days

----------------------------------------------------------------------------
\* days[i..j] is a run that cannot be extended on either side
IsMaximalRun(days, i, j) ==
    /\ IsRun(days, i, j)
    /\ i > 1 => days[i - 1].score < 2
    /\ j < Len(days) => days[j + 1].score < 2

\* days[i..j] ties with the window on length and on total score
TiesWith(w, days, i, j) ==
    /\ IsMaximalRun(days, i, j)
    /\ j - i + 1 = Len(w.days)
    /\ RunTotal(days, i, j) = w.totalScore

\* C24: when runs tie on both length and total score, findBestWindow
\* returns the earliest of them: no run before the returned window ties
\* with it, a later run replacing the best so far only when it is strictly
\* longer, or equally long with a strictly higher total.
C24_EarliestOnTie ==
    (Found /\ window # NULL) =>
        \A p \in 1..Len(inDays) :
            StartsAt(window[1], inDays, p) =>
                \A i \in 1..(p - 1) : \A j \in i..Len(inDays) :
                    ~TiesWith(window[1], inDays, i, j)

\* the returned window is followed by a run of the same length and total
C24_Witness ==
    /\ Found /\ window # NULL
    /\ \E p \in 1..Len(inDays) :
          /\ StartsAt(window[1], inDays, p)
          /\ \E i \in (p + 1)..Len(inDays) : \E j \in i..Len(inDays) :
                TiesWith(window[1], inDays, i, j)
    /\ Len(window[1].days) >= 2

----------------------------------------------------------------------------
\* the dates of the days are pairwise distinct
DistinctDates(days) ==
    \A i, j \in 1..Len(days) : days[i].date = days[j].date => i = j

----------------------------------------------------------------------------
\* the recommendation is one the no-window branch returns
FromNoWindowBranch(recommendation) ==
    \/ recommendation.type \in {"season_over", "too_cold"}
    \/ /\ recommendation.type = "no_window"
       /\ recommendation.message =
              <<"No strong tapping window in the current forecast.">>

----------------------------------------------------------------------------
IsPrefix(s, t) == Len(s) <= Len(t) /\ s = SubSeq(t, 1, Len(s))

\* the operations of handleForecast, in the order the claim gives them
StepOrder ==
    IF env.FORECAST_CACHE
    THEN <<"get", "apiKey", "fetch", "json", "compute", "put">>
    ELSE <<"apiKey", "fetch", "json", "compute">>

\* C27: handleForecast validates the coordinates, then looks the key up
\* in the cache, then checks the API key, then fetches from the upstream:
\* a request with invalid coordinates is rejected with 400 before the
\* cache is read or the upstream contacted, and a request answered from
\* the cache has neither had the API key checked nor the upstream
\* contacted.
C27_StepOrder ==
    \A r \in Slots :
        /\ IsPrefix(local[r].steps, StepOrder)
        /\ (Answered(r) /\ ForecastRequest(r) /\ ~ValidCoordinates(r)) =>
              /\ IsErrorResponse(response[r][1], 400)
              /\ local[r].steps = <<>>
        /\ (Succeeded(r) /\ response[r][1].body.cached) =>
              local[r].steps = <<"get">>
        /\ (Answered(r) /\ IsErrorResponse(response[r][1], 500)) =>
              local[r].steps[Len(local[r].steps)] = "apiKey"

\* a request answered from the cache after its lookup alone
C27_Witness ==
    \E r \in Slots :
        /\ Succeeded(r)
        /\ response[r][1].body.cached
        /\ local[r].steps = <<"get">>
        /\ env.FORECAST_CACHE

----------------------------------------------------------------------------
\* the stored text is a ForecastResult computed in full from a body the
\* upstream has served
IsComputedResult(text) ==
    /\ DOMAIN JSONParse(text) = ResultFields
    /\ JSONParse(text).recommendation.type \in RecommendationType
    /\ JSONParse(text).cached = FALSE
    /\ \E body \in ServedBodies : JSONParse(text) = ForecastResultOf(body)

\* the request has written to the cache
HasWritten(r) == Did(r, "put") /\ Answered(r)

\* C28: in every interleaving of forecast requests, every value stored in
\* the cache is a completely computed successful ForecastResult; a
\* request that ends with status 400, 500 or 502 never writes to the
\* cache; and a request writes only once, after its upstream fetch has
\* succeeded and its recommendation has been computed.
C28_CacheHoldsResults ==
    [][/\ \A e \in kv' : IsComputedResult(e.value)
       /\ \A r \in Slots :
             (Answered(r)' /\ response'[r][1].status \in {400, 500, 502}) =>
                 ~Did(r, "put")'
       /\ \A e \in kv' \ kv :
             \E r \in Slots :
                 /\ hpc[r] = "put" /\ hpc'[r] = "done"
                 /\ local[r].steps =
                       <<"get", "apiKey", "fetch", "json", "compute", "put">>
                 /\ local[r].apiResponse = Resolved(200)
                 /\ e.key = local[r].cacheKey
                 /\ e.value = JSONStringify(local[r].result[1])
                 /\ e.value = JSONStringify(response'[r][1].body)]_vars

\* the cache holds a result while a request for its key has ended with
\* a 502 and another, for a key of its own, with a 400
C28_Witness ==
    \E r1, r2 \in Slots :
        /\ Answered(r1) /\ Answered(r2)
        /\ response[r1][1].status = 502
        /\ response[r2][1].status = 400
        /\ \E e \in kv : e.key = local[r1].cacheKey /\ IsComputedResult(e.value)

====
